---- MODULE Spec2Model ----
(***************************************************************************)
(* Input session of pointzerver: the per-process session state of the      *)
(* drag-batching backend (src/input/macos.rs) and the platform events each *)
(* command handler requests.                                               *)
(*                                                                         *)
(* Conventions.                                                            *)
(*  - Option<T> is a sequence: None == <<>>, Some(v) == <<v>>; a position  *)
(*    Option<(f64, f64)> is <<>> or <<x, y>>.                              *)
(*  - f64 deltas and coordinates are integers (the inputs are small whole  *)
(*    numbers, which f64 adds exactly).                                    *)
(*  - An Instant is observable only through the time elapsed since it, so  *)
(*    a stored Instant is kept as the milliseconds elapsed since it,       *)
(*    saturated at the first value above which the code no longer          *)
(*    distinguishes it.  Time passes in Tick steps between commands and in *)
(*    the sleep inside mouse_click.                                        *)
(*  - Every injection a handler requests is appended to `events` with the  *)
(*    flag ok (FALSE: the platform call returned an error, the handler     *)
(*    returned early through `?`).  The input `fail` of a handler is the   *)
(*    index of its injection that fails, 0 for none.                       *)
(***************************************************************************)
EXTENDS Integers, Sequences, FiniteSets, TLC

VARIABLES
  current_pos,     \* InputHandlerImpl.current_pos
  modifier_state,  \* InputHandlerImpl.modifier_state
  button_state,    \* InputHandlerImpl.button_state
  last_click,      \* InputHandlerImpl.last_click
  drag_state,      \* InputHandlerImpl.drag_state
  events,          \* injections requested by the most recent command, in order
  command,         \* the most recent command
  mod_sent,        \* history: last successfully injected event per modifier
  last_motion,     \* history: position of the last injected move or drag event
  down_open,       \* history: a MouseDown was processed after the last MouseUp
  inj_failed,      \* history: some injection has failed in this run
  since_drag,      \* history: ms since the last drag event injected by a MouseMove
  held_move,       \* history: a MouseMove found a button held since the last MouseUp
  clicks,          \* history: the most recent click classifications
  scen,            \* progress of the end-to-end drag scenario
  loop,            \* CommandService::run: its socket, its position, what it emitted
  locking,         \* the session's mutexes and the handlers that take them
  backend,         \* the backend the build selected: "macos", "unix" or "windows"
  probe            \* history: what the backend and decoding specifications observe

vars == <<current_pos, modifier_state, button_state, last_click, drag_state,
          events, command, mod_sent, last_motion, down_open, inj_failed,
          since_drag, held_move, clicks, scen, loop, locking, backend, probe>>

\* The variables outside the session; each specification maintains the ones
\* it observes.
history ==
  <<mod_sent, last_motion, down_open, since_drag, held_move, clicks, scen, loop, locking,
    backend, probe>>

(***************************************************************************)
(* Program constants                                                       *)
(***************************************************************************)
DRAG_BATCH_INTERVAL_MS == 16
MOUSE_CLICK_DELAY_MS == 10
DOUBLE_CLICK_TIMEOUT_MS == 350
FALLBACK_SCREEN_WIDTH == 1920
FALLBACK_SCREEN_HEIGHT == 1080

(***************************************************************************)
(* Bounds of the model                                                     *)
(***************************************************************************)
MaxTravel == 1      \* |x - centre x| stays within this in the drag specification
MaxRise == 1        \* y - centre y stays within 0..MaxRise
MaxClicks == 3      \* length of the click history
ScenMoves == 5      \* MouseMove commands of the end-to-end scenario
ScenWindowMs == 50  \* the scenario's moves happen within this time of its MouseDown
MaxHandlers == 3    \* handlers running at once in the locking specification

None == <<>>
Some(v) == <<v>>

Modifiers == {"ctrl", "alt", "shift", "meta"}

Sat(e, cap) == IF e > cap THEN cap ELSE e
FlushCap == DRAG_BATCH_INTERVAL_MS
ClickCap == DOUBLE_CLICK_TIMEOUT_MS + 1

\* An injection request.  held and dragging are button_state and
\* drag_state.button at the moment of the request; age is the time elapsed
\* then since drag_state.last_flush, and since the time elapsed then since the
\* last drag event injected by a MouseMove.
Event(type, pos, button, count, key, ok, held, drag) ==
  [type |-> type, pos |-> pos, button |-> button, count |-> count, key |-> key,
   ok |-> ok, held |-> held, dragging |-> drag.button, age |-> drag.last_flush,
   since |-> since_drag]

Center == <<FALLBACK_SCREEN_WIDTH \div 2, FALLBACK_SCREEN_HEIGHT \div 2>>

map_button_unknown(button) ==
  CASE button = 1 -> "Left"
    [] button = 2 -> "Right"
    [] button = 3 -> "Middle"
    [] OTHER -> "Unknown"
map_button(button) ==
  CASE button = 1 -> "Left"
    [] button = 2 -> "Right"
    [] button = 3 -> "Middle"
    [] OTHER -> "Left"

\* Returns the coordinates and the new current_pos.
resolve_pointer_position(pos) ==
  IF pos # None THEN [coords |-> pos, pos |-> pos]
               ELSE [coords |-> Center, pos |-> Center]

send_mouse_drag(target, button, ok, held, drag) ==
  Event("Drag", target, button, 0, "", ok, held, drag)

should_flush_always(drag) == TRUE
should_flush(drag) == drag.last_flush >= DRAG_BATCH_INTERVAL_MS

queue_drag_event_keeps(drag, delta_x, delta_y, target, button, fails) ==
  LET acc == [drag EXCEPT !.pending_x = @ + delta_x, !.pending_y = @ + delta_y]
  IN IF should_flush(acc)
       THEN IF fails
              THEN [drag |-> acc, evs |-> <<send_mouse_drag(target, button, FALSE, button, acc)>>]
              ELSE [drag |-> [acc EXCEPT !.last_flush = 0],
                    evs |-> <<send_mouse_drag(target, button, TRUE, button, acc)>>]
       ELSE [drag |-> acc, evs |-> <<>>]
queue_drag_event_delta(drag, delta_x, delta_y, target, button, fails) ==
  LET acc == [drag EXCEPT !.pending_x = @ + delta_x, !.pending_y = @ + delta_y]
      delta == <<acc.pending_x, acc.pending_y>>
  IN IF should_flush(acc)
       THEN IF fails
              THEN [drag |-> acc, evs |-> <<send_mouse_drag(delta, button, FALSE, button, acc)>>]
              ELSE [drag |-> [acc EXCEPT !.pending_x = 0, !.pending_y = 0, !.last_flush = 0],
                    evs |-> <<send_mouse_drag(delta, button, TRUE, button, acc)>>]
       ELSE [drag |-> acc, evs |-> <<>>]
queue_drag_event(drag, delta_x, delta_y, target, button, fails) ==
  LET acc == [drag EXCEPT !.pending_x = @ + delta_x, !.pending_y = @ + delta_y]
  IN IF should_flush(acc)
       THEN IF fails
              THEN [drag |-> acc, evs |-> <<send_mouse_drag(target, button, FALSE, button, acc)>>]
              ELSE [drag |-> [acc EXCEPT !.pending_x = 0, !.pending_y = 0, !.last_flush = 0],
                    evs |-> <<send_mouse_drag(target, button, TRUE, button, acc)>>]
       ELSE [drag |-> acc, evs |-> <<>>]

mouse_move_by_dragging(pos, held, drag, x, y, fail) ==
  LET base == IF pos # None THEN pos ELSE Center
      target == <<base[1] + x, base[2] + y>>
  IN IF drag.button # None
       THEN LET q == queue_drag_event(drag, x, y, target, held, fail = 1)
            IN [pos |-> target, drag |-> q.drag, evs |-> q.evs]
       ELSE [pos |-> target, drag |-> drag,
             evs |-> <<Event("MouseMove", target, None, 0, "", fail # 1, held, drag)>>]
mouse_move(pos, held, drag, x, y, fail) ==
  LET base == IF pos # None THEN pos ELSE Center
      new == <<base[1] + x, base[2] + y>>
  IN IF held # None
       THEN LET q == queue_drag_event(drag, x, y, new, held, fail = 1)
            IN [pos |-> new, drag |-> q.drag, evs |-> q.evs]
       ELSE [pos |-> new, drag |-> drag,
             evs |-> <<Event("MouseMove", new, None, 0, "", fail # 1, held, drag)>>]

mouse_down_accumulating(drag, button, fail) ==
  LET button_enum == map_button(button)
      d == [drag EXCEPT !.last_flush = 0, !.button = Some(button_enum)]
  IN [held |-> Some(button_enum), drag |-> d,
      evs |-> <<Event("ButtonPress", None, Some(button_enum), 0, "", fail # 1,
                      Some(button_enum), d)>>]
mouse_down(drag, button, fail) ==
  LET button_enum == map_button(button)
      d == [pending_x |-> 0, pending_y |-> 0, last_flush |-> 0, button |-> Some(button_enum)]
  IN [held |-> Some(button_enum), drag |-> d,
      evs |-> <<Event("ButtonPress", None, Some(button_enum), 0, "", fail # 1,
                      Some(button_enum), d)>>]

has_pending_both(drag) == drag.pending_x # 0 /\ drag.pending_y # 0
has_pending(drag) == drag.pending_x # 0 \/ drag.pending_y # 0

flush_pending_drag_delta(drag, pos, held, fails) ==
  IF has_pending(drag)
    THEN LET r == resolve_pointer_position(pos)
             delta == <<drag.pending_x, drag.pending_y>>
         IN IF fails
              THEN [drag |-> drag, pos |-> r.pos, ok |-> FALSE,
                    evs |-> <<send_mouse_drag(delta, drag.button, FALSE, held, drag)>>]
              ELSE [drag |-> [drag EXCEPT !.pending_x = 0, !.pending_y = 0],
                    pos |-> r.pos, ok |-> TRUE,
                    evs |-> <<send_mouse_drag(delta, drag.button, TRUE, held, drag)>>]
    ELSE [drag |-> drag, pos |-> pos, ok |-> TRUE, evs |-> <<>>]
flush_pending_drag(drag, pos, held, fails) ==
  IF has_pending(drag)
    THEN LET r == resolve_pointer_position(pos)
         IN IF fails
              THEN [drag |-> drag, pos |-> r.pos, ok |-> FALSE,
                    evs |-> <<send_mouse_drag(r.coords, drag.button, FALSE, held, drag)>>]
              ELSE [drag |-> [drag EXCEPT !.pending_x = 0, !.pending_y = 0],
                    pos |-> r.pos, ok |-> TRUE,
                    evs |-> <<send_mouse_drag(r.coords, drag.button, TRUE, held, drag)>>]
    ELSE [drag |-> drag, pos |-> pos, ok |-> TRUE, evs |-> <<>>]

mouse_up_clearing_late(pos, held, drag, button, fail) ==
  LET button_enum == map_button(button)
      f == flush_pending_drag(drag, pos, held, fail = 1)
  IN IF ~f.ok
       THEN [pos |-> f.pos, held |-> held, drag |-> f.drag, evs |-> f.evs]
       ELSE [pos |-> f.pos, held |-> None,
             drag |-> [f.drag EXCEPT !.pending_x = 0, !.pending_y = 0, !.button = None],
             evs |-> Append(f.evs,
                       Event("ButtonRelease", None, Some(button_enum), 0, "",
                             fail # Len(f.evs) + 1, held, f.drag))]
mouse_up(pos, held, drag, button, fail) ==
  LET button_enum == map_button(button)
      f == flush_pending_drag(drag, pos, held, fail = 1)
  IN IF ~f.ok
       THEN [pos |-> f.pos, held |-> held, drag |-> f.drag, evs |-> f.evs]
       ELSE LET d == [f.drag EXCEPT !.pending_x = 0, !.pending_y = 0, !.button = None]
            IN [pos |-> f.pos, held |-> None, drag |-> d,
                evs |-> Append(f.evs,
                          Event("ButtonRelease", None, Some(button_enum), 0, "",
                                fail # Len(f.evs) + 1, None, d))]

next_click_count_nocount(lc, button) ==
  LET count == IF lc # None /\ lc[1].button = button
                    /\ lc[1].time <= DOUBLE_CLICK_TIMEOUT_MS
                 THEN 2 ELSE 1
  IN [count |-> count, last_click |-> Some([button |-> button, time |-> 0, count |-> count])]
next_click_count_nobutton(lc, button) ==
  LET count == IF lc # None /\ lc[1].time <= DOUBLE_CLICK_TIMEOUT_MS /\ lc[1].count = 1
                 THEN 2 ELSE 1
  IN [count |-> count, last_click |-> Some([button |-> button, time |-> 0, count |-> count])]
next_click_count_strict(lc, button) ==
  LET count == IF lc # None /\ lc[1].button = button
                    /\ lc[1].time < DOUBLE_CLICK_TIMEOUT_MS /\ lc[1].count = 1
                 THEN 2 ELSE 1
  IN [count |-> count, last_click |-> Some([button |-> button, time |-> 0, count |-> count])]
next_click_count_mapped(lc, button) ==
  LET count == IF lc # None /\ map_button(lc[1].button) = map_button(button)
                    /\ lc[1].time <= DOUBLE_CLICK_TIMEOUT_MS /\ lc[1].count = 1
                 THEN 2 ELSE 1
  IN [count |-> count, last_click |-> Some([button |-> button, time |-> 0, count |-> count])]
\* Returns the count and the new last_click (its Instant is `now`: 0 ms ago).
next_click_count(lc, button) ==
  LET count == IF lc # None
                 THEN IF lc[1].button = button
                         /\ lc[1].time <= DOUBLE_CLICK_TIMEOUT_MS
                         /\ lc[1].count = 1
                        THEN 2 ELSE 1
                 ELSE 1
  IN [count |-> count, last_click |-> Some([button |-> button, time |-> 0, count |-> count])]

send_mouse_button_event(position, button, is_press, click_state, ok, held, drag) ==
  Event(IF is_press THEN "ButtonPress" ELSE "ButtonRelease",
        position, Some(button), click_state, "", ok, held, drag)

elapse_drag(drag, d) == [drag EXCEPT !.last_flush = Sat(@ + d, FlushCap)]
elapse_click(lc, d) ==
  IF lc = None THEN None ELSE Some([lc[1] EXCEPT !.time = Sat(@ + d, ClickCap)])

mouse_click_undoing(pos, lc, drag, button, fail) ==
  LET button_enum == map_button(button)
      c == next_click_count(lc, button)
      r == resolve_pointer_position(pos)
      press == send_mouse_button_event(r.coords, button_enum, TRUE, c.count,
                                       fail # 1, Some(button_enum), drag)
      aged == elapse_drag(drag, MOUSE_CLICK_DELAY_MS)
      release == send_mouse_button_event(r.coords, button_enum, FALSE, c.count,
                                         fail # 2, None, aged)
  IN IF fail = 1
       THEN [pos |-> r.pos, held |-> None, last_click |-> lc,
             drag |-> drag, count |-> c.count, slept |-> 0, evs |-> <<press>>]
       ELSE [pos |-> r.pos, held |-> None,
             last_click |-> elapse_click(c.last_click, MOUSE_CLICK_DELAY_MS),
             drag |-> aged, count |-> c.count, slept |-> MOUSE_CLICK_DELAY_MS,
             evs |-> <<press, release>>]
mouse_click_holding(pos, lc, drag, button, fail) ==
  LET button_enum == map_button(button)
      c == next_click_count(lc, button)
      r == resolve_pointer_position(pos)
      press == send_mouse_button_event(r.coords, button_enum, TRUE, c.count,
                                       fail # 1, Some(button_enum), drag)
      aged == elapse_drag(drag, MOUSE_CLICK_DELAY_MS)
      release == send_mouse_button_event(r.coords, button_enum, FALSE, c.count,
                                         fail # 2, Some(button_enum), aged)
  IN IF fail = 1
       THEN [pos |-> r.pos, held |-> Some(button_enum), last_click |-> c.last_click,
             drag |-> drag, count |-> c.count, slept |-> 0, evs |-> <<press>>]
       ELSE [pos |-> r.pos, held |-> Some(button_enum),
             last_click |-> elapse_click(c.last_click, MOUSE_CLICK_DELAY_MS),
             drag |-> aged, count |-> c.count, slept |-> MOUSE_CLICK_DELAY_MS,
             evs |-> <<press, release>>]
\* slept is the time spent in tokio::time::sleep; the Instants of the result
\* are already aged by it.
mouse_click(pos, lc, drag, button, fail) ==
  LET button_enum == map_button(button)
      c == next_click_count(lc, button)
      r == resolve_pointer_position(pos)
      press == send_mouse_button_event(r.coords, button_enum, TRUE, c.count,
                                       fail # 1, Some(button_enum), drag)
      aged == elapse_drag(drag, MOUSE_CLICK_DELAY_MS)
      release == send_mouse_button_event(r.coords, button_enum, FALSE, c.count,
                                         fail # 2, None, aged)
  IN IF fail = 1
       THEN [pos |-> r.pos, held |-> Some(button_enum), last_click |-> c.last_click,
             drag |-> drag, count |-> c.count, slept |-> 0, evs |-> <<press>>]
       ELSE [pos |-> r.pos, held |-> None,
             last_click |-> elapse_click(c.last_click, MOUSE_CLICK_DELAY_MS),
             drag |-> aged, count |-> c.count, slept |-> MOUSE_CLICK_DELAY_MS,
             evs |-> <<press, release>>]

(***************************************************************************)
(* Keyboard                                                                *)
(***************************************************************************)
NoDrag == [pending_x |-> 0, pending_y |-> 0, last_flush |-> 0, button |-> None]

send_event(type, key, ok) == Event(type, None, None, 0, key, ok, None, NoDrag)

ModKey == [ctrl |-> "ControlLeft", alt |-> "Alt", shift |-> "ShiftLeft", meta |-> "MetaLeft"]

LowerLetters == <<"a","b","c","d","e","f","g","h","i","j","k","l","m",
                  "n","o","p","q","r","s","t","u","v","w","x","y","z">>
UpperLetters == <<"A","B","C","D","E","F","G","H","I","J","K","L","M",
                  "N","O","P","Q","R","S","T","U","V","W","X","Y","Z">>
Digits == <<"0","1","2","3","4","5","6","7","8","9">>

KeyTable ==
  [name \in {" ", "\n", "\r", "\t", "BS", "DEL", ".", ",", ";", ":", "!", "?", "-", "_",
             "=", "+", "[", "]", "{", "}", "(", ")", "'", "\"", "\\", "|", "/", "<", ">"} |->
     CASE name = " " -> "Space"
       [] name \in {"\n", "\r"} -> "Return"
       [] name = "\t" -> "Tab"
       [] name \in {"BS", "DEL"} -> "Backspace"
       [] name \in {".", ">"} -> "Dot"
       [] name \in {",", "<"} -> "Comma"
       [] name \in {";", ":"} -> "SemiColon"
       [] name \in {"!"} -> "Num1"
       [] name \in {"?", "/"} -> "Slash"
       [] name \in {"-", "_"} -> "Minus"
       [] name \in {"=", "+"} -> "Equal"
       [] name \in {"[", "{"} -> "LeftBracket"
       [] name \in {"]", "}"} -> "RightBracket"
       [] name = "(" -> "Num9"
       [] name = ")" -> "Num0"
       [] name \in {"'", "\""} -> "Quote"
       [] name \in {"\\", "|"} -> "BackSlash"]

\* "BS" stands for "\x08" and "DEL" for "\x7f".
string_to_key(s) ==
  IF s \in DOMAIN KeyTable THEN Some(KeyTable[s])
  ELSE IF \E i \in 1..26 : s = LowerLetters[i] \/ s = UpperLetters[i]
    THEN LET i == CHOOSE i \in 1..26 : s = LowerLetters[i] \/ s = UpperLetters[i]
         IN Some("Key" \o UpperLetters[i])
  ELSE IF \E i \in 1..10 : s = Digits[i]
    THEN Some("Num" \o s)
  ELSE None

\* unix.rs has the text of the drag-batching backend's string_to_key.
unix_string_to_key(s) == string_to_key(s)

\* The literal arms of string_to_vk in windows.rs, by virtual-key name.
VkTable ==
  [name \in {" ", "\n", "\r", "\t", "BS", "DEL", ".", ",", ";", ":", "!", "?", "-", "_",
             "=", "+", "[", "]", "{", "}", "(", ")", "'", "\"", "\\", "|", "/", "<", ">"} |->
     CASE name = " " -> "VK_SPACE"
       [] name \in {"\n", "\r"} -> "VK_RETURN"
       [] name = "\t" -> "VK_TAB"
       [] name \in {"BS", "DEL"} -> "VK_BACK"
       [] name \in {".", ">"} -> "VK_OEM_PERIOD"
       [] name \in {",", "<"} -> "VK_OEM_COMMA"
       [] name \in {";", ":"} -> "VK_OEM_1"
       [] name = "!" -> "VK_1"
       [] name \in {"?", "/"} -> "VK_OEM_2"
       [] name \in {"-", "_"} -> "VK_OEM_MINUS"
       [] name \in {"=", "+"} -> "VK_OEM_PLUS"
       [] name \in {"[", "{"} -> "VK_OEM_4"
       [] name \in {"]", "}"} -> "VK_OEM_6"
       [] name = "(" -> "VK_9"
       [] name = ")" -> "VK_0"
       [] name \in {"'", "\""} -> "VK_OEM_7"
       [] name \in {"\\", "|"} -> "VK_OEM_5"]

string_to_vk_cased(s) ==
  IF s \in DOMAIN VkTable THEN Some(VkTable[s])
  ELSE IF \E i \in 1..26 : s = UpperLetters[i]
    THEN Some("VK_" \o s)
  ELSE IF \E i \in 1..10 : s = Digits[i]
    THEN Some("VK_" \o s)
  ELSE None
string_to_vk(s) ==
  IF s \in DOMAIN VkTable THEN Some(VkTable[s])
  ELSE IF \E i \in 1..26 : s = LowerLetters[i] \/ s = UpperLetters[i]
    THEN LET i == CHOOSE i \in 1..26 : s = LowerLetters[i] \/ s = UpperLetters[i]
         IN Some("VK_" \o UpperLetters[i])
  ELSE IF \E i \in 1..10 : s = Digits[i]
    THEN Some("VK_" \o s)
  ELSE None

ModOrder == <<"ctrl", "alt", "shift", "meta">>

apply_step_unguarded(acc, modifiers, m, press, fail) ==
  IF acc.ok /\ modifiers[m] = press
    THEN IF Len(acc.evs) + 1 = fail
           THEN [state |-> acc.state, ok |-> FALSE,
                 evs |-> Append(acc.evs,
                           send_event(IF press THEN "KeyPress" ELSE "KeyRelease", ModKey[m], FALSE))]
           ELSE [state |-> [acc.state EXCEPT ![m] = press], ok |-> TRUE,
                 evs |-> Append(acc.evs,
                           send_event(IF press THEN "KeyPress" ELSE "KeyRelease", ModKey[m], TRUE))]
    ELSE acc
\* One `if` of apply_modifiers: modifier m towards `press`.
apply_step(acc, modifiers, m, press, fail) ==
  IF acc.ok /\ modifiers[m] = press /\ acc.state[m] # press
    THEN IF Len(acc.evs) + 1 = fail
           THEN [state |-> acc.state, ok |-> FALSE,
                 evs |-> Append(acc.evs,
                           send_event(IF press THEN "KeyPress" ELSE "KeyRelease", ModKey[m], FALSE))]
           ELSE [state |-> [acc.state EXCEPT ![m] = press], ok |-> TRUE,
                 evs |-> Append(acc.evs,
                           send_event(IF press THEN "KeyPress" ELSE "KeyRelease", ModKey[m], TRUE))]
    ELSE acc

\* The `if`s of one direction from the i-th on; each step's result is bound
\* as a value, so that it is computed once.
RECURSIVE apply_pass(_, _, _, _, _)
apply_pass(acc, modifiers, i, press, fail) ==
  IF i > Len(ModOrder) THEN acc
  ELSE CHOOSE r \in {apply_pass(step, modifiers, i + 1, press, fail) :
                       step \in {apply_step(acc, modifiers, ModOrder[i], press, fail)}} : TRUE

apply_modifiers_presses(state, modifiers, fail) ==
  apply_pass([state |-> state, ok |-> TRUE, evs |-> <<>>], modifiers, 1, TRUE, fail)
apply_modifiers_releases_first(state, modifiers, fail) ==
  LET releases == apply_pass([state |-> state, ok |-> TRUE, evs |-> <<>>],
                             modifiers, 1, FALSE, fail)
  IN apply_pass(releases, modifiers, 1, TRUE, fail)
apply_modifiers(state, modifiers, fail) ==
  LET presses == apply_pass([state |-> state, ok |-> TRUE, evs |-> <<>>],
                            modifiers, 1, TRUE, fail)
  IN apply_pass(presses, modifiers, 1, FALSE, fail)

key_press_unmapped(state, key, modifiers, fail) ==
  LET a == apply_modifiers(state, modifiers, fail)
      k == string_to_key(key)
  IN IF ~a.ok
       THEN [state |-> a.state, evs |-> a.evs]
       ELSE [state |-> a.state,
             evs |-> Append(a.evs, send_event("KeyPress", IF k = None THEN "Unknown" ELSE k[1],
                                              Len(a.evs) + 1 # fail))]
key_press(state, key, modifiers, fail) ==
  LET a == apply_modifiers(state, modifiers, fail)
      k == string_to_key(key)
  IN IF ~a.ok \/ k = None
       THEN [state |-> a.state, evs |-> a.evs]
       ELSE [state |-> a.state,
             evs |-> Append(a.evs, send_event("KeyPress", k[1], Len(a.evs) + 1 # fail))]

key_release_lifting(state, key, modifiers, fail) ==
  LET k == string_to_key(key)
  IN IF k = None THEN [state |-> state, evs |-> <<>>]
     ELSE [state |-> [m \in Modifiers |-> state[m] /\ modifiers[m]],
           evs |-> <<send_event("KeyRelease", k[1], fail # 1)>>]
\* The modifier set of the command is received and not used.
key_release_diffing(state, key, modifiers, fail) ==
  LET a == apply_modifiers(state, modifiers, fail)
      k == string_to_key(key)
  IN IF ~a.ok \/ k = None
       THEN [state |-> a.state, evs |-> a.evs]
       ELSE [state |-> a.state,
             evs |-> Append(a.evs, send_event("KeyRelease", k[1], Len(a.evs) + 1 # fail))]
key_release(state, key, modifiers, fail) ==
  LET k == string_to_key(key)
  IN IF k = None THEN [state |-> state, evs |-> <<>>]
     ELSE [state |-> state, evs |-> <<send_event("KeyRelease", k[1], fail # 1)>>]

LowerTable ==
  [s \in {"Ctrl", "CONTROL", "Alt", "SHIFT", "Meta", "Super", "CMD"} |->
     CASE s = "Ctrl" -> "ctrl" [] s = "CONTROL" -> "control" [] s = "Alt" -> "alt"
       [] s = "SHIFT" -> "shift" [] s = "Meta" -> "meta" [] s = "Super" -> "super"
       [] s = "CMD" -> "cmd"]

to_lowercase(s) == IF s \in DOMAIN LowerTable THEN LowerTable[s] ELSE s

\* The arm of the `match` a modifier name selects, None for `_`.
modifier_arm(modifier) ==
  LET l == to_lowercase(modifier)
  IN CASE l \in {"ctrl", "control"} -> Some("ctrl")
       [] l = "alt" -> Some("alt")
       [] l = "shift" -> Some("shift")
       [] l \in {"meta", "super", "cmd"} -> Some("meta")
       [] OTHER -> None

modifier_press_guarded(state, modifier, fail) ==
  LET arm == modifier_arm(modifier)
  IN IF arm = None \/ state[arm[1]] THEN [state |-> state, evs |-> <<>>]
     ELSE [state |-> [state EXCEPT ![arm[1]] = TRUE],
           evs |-> <<send_event("KeyPress", ModKey[arm[1]], fail # 1)>>]
modifier_press(state, modifier, fail) ==
  LET arm == modifier_arm(modifier)
  IN IF arm = None THEN [state |-> state, evs |-> <<>>]
     ELSE [state |-> [state EXCEPT ![arm[1]] = TRUE],
           evs |-> <<send_event("KeyPress", ModKey[arm[1]], fail # 1)>>]

modifier_release(state, modifier, fail) ==
  LET arm == modifier_arm(modifier)
  IN IF arm = None THEN [state |-> state, evs |-> <<>>]
     ELSE [state |-> [state EXCEPT ![arm[1]] = FALSE],
           evs |-> <<send_event("KeyRelease", ModKey[arm[1]], fail # 1)>>]

(***************************************************************************)
(* Scroll, and the two halves of mouse_click around its sleep              *)
(***************************************************************************)
\* A wheel event carries its two deltas in pos.
mouse_scroll_unchecked(delta_x, delta_y, fail) ==
  LET vertical == IF delta_y # 0
                    THEN <<Event("Wheel", <<0, delta_y>>, None, 0, "", fail # 1, None, NoDrag)>>
                    ELSE <<>>
  IN IF delta_x # 0
       THEN Append(vertical, Event("Wheel", <<delta_x, 0>>, None, 0, "",
                                   fail # Len(vertical) + 1, None, NoDrag))
       ELSE vertical
mouse_scroll_both(delta_x, delta_y, fail) ==
  LET vertical == <<Event("Wheel", <<0, delta_y>>, None, 0, "", fail # 1, None, NoDrag)>>
  IN IF ~vertical[1].ok THEN vertical
     ELSE Append(vertical, Event("Wheel", <<delta_x, 0>>, None, 0, "", fail # 2, None, NoDrag))
mouse_scroll(delta_x, delta_y, fail) ==
  LET vertical == IF delta_y # 0
                    THEN <<Event("Wheel", <<0, delta_y>>, None, 0, "", fail # 1, None, NoDrag)>>
                    ELSE <<>>
  IN IF vertical # <<>> /\ ~vertical[1].ok THEN vertical
     ELSE IF delta_x # 0
       THEN Append(vertical, Event("Wheel", <<delta_x, 0>>, None, 0, "",
                                   fail # Len(vertical) + 1, None, NoDrag))
       ELSE vertical

\* mouse_click up to its sleep; locals are the handler's variables that live
\* across the sleep, done tells that the handler returned through `?`.
mouse_click_press(pos, lc, drag, button, fails) ==
  LET button_enum == map_button(button)
      c == next_click_count(lc, button)
      r == resolve_pointer_position(pos)
  IN [pos |-> r.pos, held |-> Some(button_enum), last_click |-> c.last_click,
      done |-> fails,
      locals |-> [position |-> r.coords, button_enum |-> button_enum, click_state |-> c.count],
      evs |-> <<send_mouse_button_event(r.coords, button_enum, TRUE, c.count, ~fails,
                                        Some(button_enum), drag)>>]

mouse_click_release_held(drag, locals, fails) ==
  [held |-> Some(locals.button_enum),
   evs |-> <<send_mouse_button_event(locals.position, locals.button_enum, FALSE,
                                     locals.click_state, ~fails, Some(locals.button_enum),
                                     drag)>>]
\* mouse_click from the end of its sleep, drag being drag_state then.
mouse_click_release(drag, locals, fails) ==
  [held |-> None,
   evs |-> <<send_mouse_button_event(locals.position, locals.button_enum, FALSE,
                                     locals.click_state, ~fails, None, drag)>>]

(***************************************************************************)
(* The two backends without drag batching (src/input/unix.rs and           *)
(* src/input/windows.rs).  Their session is current_pos and modifier_state;*)
(* cursor is what get_cursor_position answers when it is called: the       *)
(* pointer's coordinates, or None when the display cannot be opened or     *)
(* GetCursorPos fails.  An event of these backends has no held button and  *)
(* no drag state.                                                          *)
(***************************************************************************)
\* Returns the new current_pos, whether the cursor was queried, and the event.
unix_mouse_move_requery(pos, cursor, x, y, fail) ==
  LET base == IF cursor # None THEN cursor ELSE IF pos # None THEN pos ELSE Center
      target == <<base[1] + x, base[2] + y>>
  IN [pos |-> target, queried |-> TRUE,
      evs |-> <<Event("MouseMove", target, None, 0, "", fail # 1, None, NoDrag)>>]
unix_mouse_move(pos, cursor, x, y, fail) ==
  LET base == IF pos # None THEN pos ELSE IF cursor # None THEN cursor ELSE Center
      target == <<base[1] + x, base[2] + y>>
  IN [pos |-> target, queried |-> pos = None,
      evs |-> <<Event("MouseMove", target, None, 0, "", fail # 1, None, NoDrag)>>]

unix_mouse_click_counted(button, fail) ==
  LET button_enum == CASE button = 1 -> "Left" [] button = 2 -> "Right"
                       [] button = 3 -> "Middle" [] OTHER -> "Left"
      press == Event("ButtonPress", None, Some(button_enum), 1, "", fail # 1, None, NoDrag)
      release == Event("ButtonRelease", None, Some(button_enum), 1, "", fail # 2, None, NoDrag)
  IN IF fail = 1 THEN <<press>> ELSE <<press, release>>
unix_mouse_click(button, fail) ==
  LET button_enum == CASE button = 1 -> "Left" [] button = 2 -> "Right"
                       [] button = 3 -> "Middle" [] OTHER -> "Left"
      press == Event("ButtonPress", None, Some(button_enum), 0, "", fail # 1, None, NoDrag)
      release == Event("ButtonRelease", None, Some(button_enum), 0, "", fail # 2, None, NoDrag)
  IN IF fail = 1 THEN <<press>> ELSE <<press, release>>

unix_mouse_down(button, fail) ==
  LET button_enum == CASE button = 1 -> "Left" [] button = 2 -> "Right"
                       [] button = 3 -> "Middle" [] OTHER -> "Left"
  IN <<Event("ButtonPress", None, Some(button_enum), 0, "", fail # 1, None, NoDrag)>>

unix_mouse_up(button, fail) ==
  LET button_enum == CASE button = 1 -> "Left" [] button = 2 -> "Right"
                       [] button = 3 -> "Middle" [] OTHER -> "Left"
  IN <<Event("ButtonRelease", None, Some(button_enum), 0, "", fail # 1, None, NoDrag)>>

unix_mouse_scroll(delta_x, delta_y, fail) ==
  LET vertical == IF delta_y # 0
                    THEN <<Event("Wheel", <<0, delta_y>>, None, 0, "", fail # 1, None, NoDrag)>>
                    ELSE <<>>
  IN IF vertical # <<>> /\ ~vertical[1].ok THEN vertical
     ELSE IF delta_x # 0
       THEN Append(vertical, Event("Wheel", <<delta_x, 0>>, None, 0, "",
                                   fail # Len(vertical) + 1, None, NoDrag))
       ELSE vertical

\* SetCursorPos is the move event; its failure is returned through `?`.
windows_mouse_move_centered(pos, cursor, x, y, fail) ==
  LET base == IF pos # None THEN pos ELSE Center
      target == <<base[1] + x, base[2] + y>>
  IN [pos |-> target, queried |-> pos = None,
      evs |-> <<Event("MouseMove", target, None, 0, "", fail # 1, None, NoDrag)>>]
windows_mouse_move(pos, cursor, x, y, fail) ==
  LET base == IF pos # None THEN pos ELSE IF cursor # None THEN cursor ELSE Center
      target == <<base[1] + x, base[2] + y>>
  IN [pos |-> target, queried |-> pos = None,
      evs |-> <<Event("MouseMove", target, None, 0, "", fail # 1, None, NoDrag)>>]

\* The button a MOUSEEVENTF_*DOWN or *UP flag names.  The result of SendInput
\* is not looked at: the handler goes on whether or not the event was
\* injected.
windows_mouse_down(button, fail) ==
  LET flags == CASE button = 1 -> "Left" [] button = 2 -> "Right"
                 [] button = 3 -> "Middle" [] OTHER -> "Left"
  IN <<Event("ButtonPress", None, Some(flags), 0, "", fail # 1, None, NoDrag)>>

windows_mouse_up(button, fail) ==
  LET flags == CASE button = 1 -> "Left" [] button = 2 -> "Right"
                 [] button = 3 -> "Middle" [] OTHER -> "Left"
  IN <<Event("ButtonRelease", None, Some(flags), 0, "", fail # 1, None, NoDrag)>>

windows_mouse_click(button, fail) ==
  windows_mouse_down(button, IF fail = 1 THEN 1 ELSE 0)
    \o windows_mouse_up(button, IF fail = 2 THEN 1 ELSE 0)

\* mouseData is the 32 bits of (delta * 120) as i32, kept here as that i32.
windows_mouse_scroll(delta_x, delta_y, fail) ==
  LET vertical == IF delta_y # 0
                    THEN <<Event("Wheel", <<0, delta_y * 120>>, None, 0, "", fail # 1,
                                 None, NoDrag)>>
                    ELSE <<>>
  IN IF delta_x # 0
       THEN Append(vertical, Event("Wheel", <<delta_x * 120, 0>>, None, 0, "",
                                   fail # Len(vertical) + 1, None, NoDrag))
       ELSE vertical

(***************************************************************************)
(* Datagrams and their decoding                                            *)
(***************************************************************************)
\* A JSON value is a pair of its kind and its content; the content of an
\* object is a function from its field names to JSON values.
Num(n) == <<"num", n>>
Str(t) == <<"str", t>>
Bool(b) == <<"bool", b>>
Obj(o) == <<"obj", o>>

IsF64(o, f) == f \in DOMAIN o /\ o[f][1] = "num"
IsU8_wide(o, f) == f \in DOMAIN o /\ o[f][1] = "num"
IsU8(o, f) == f \in DOMAIN o /\ o[f][1] = "num" /\ o[f][2] \in 0..255
IsString(o, f) == f \in DOMAIN o /\ o[f][1] = "str"

\* #[serde(default)] on each field of ModifierKeys and on `modifiers`.
decode_modifiers_strict(o) ==
  IF "modifiers" \notin DOMAIN o \/ o["modifiers"][1] # "obj" THEN None
  ELSE LET g == o["modifiers"][2]
       IN IF \E m \in Modifiers : m \notin DOMAIN g \/ g[m][1] # "bool" THEN None
          ELSE Some([m \in Modifiers |-> g[m][2]])
decode_modifiers(o) ==
  IF "modifiers" \notin DOMAIN o THEN Some([m \in Modifiers |-> FALSE])
  ELSE IF o["modifiers"][1] # "obj" THEN None
  ELSE LET g == o["modifiers"][2]
       IN IF \E m \in Modifiers : m \in DOMAIN g /\ g[m][1] # "bool" THEN None
          ELSE Some([m \in Modifiers |-> IF m \in DOMAIN g THEN g[m][2] ELSE FALSE])

\* Fields a decoder that defaults a missing number to 0 would accept.
decode_defaulting(v) ==
  IF v[1] # "obj" THEN None
  ELSE LET o == v[2]
           num(f) == IF f \in DOMAIN o /\ o[f][1] = "num" THEN o[f][2] ELSE 0
       IN IF ~IsString(o, "type") THEN None
          ELSE LET tag == o["type"][2]
               IN CASE tag = "MouseMove" -> Some([type |-> tag, x |-> num("x"), y |-> num("y")])
                    [] tag \in {"MouseClick", "MouseDown", "MouseUp"} ->
                         Some([type |-> tag, button |-> num("button")])
                    [] tag = "MouseScroll" ->
                         Some([type |-> tag, delta_x |-> num("delta_x"), delta_y |-> num("delta_y")])
                    [] OTHER -> None
\* serde_json::from_slice::<Command>: Some(command) or None for Err.
decode(v) ==
  IF v[1] # "obj" THEN None
  ELSE LET o == v[2]
       IN IF ~IsString(o, "type") THEN None
          ELSE LET tag == o["type"][2]
               IN CASE tag = "MouseMove" ->
                         IF IsF64(o, "x") /\ IsF64(o, "y")
                           THEN Some([type |-> tag, x |-> o["x"][2], y |-> o["y"][2]])
                           ELSE None
                    [] tag \in {"MouseClick", "MouseDown", "MouseUp"} ->
                         IF IsU8(o, "button")
                           THEN Some([type |-> tag, button |-> o["button"][2]])
                           ELSE None
                    [] tag = "MouseScroll" ->
                         IF IsF64(o, "delta_x") /\ IsF64(o, "delta_y")
                           THEN Some([type |-> tag, delta_x |-> o["delta_x"][2],
                                      delta_y |-> o["delta_y"][2]])
                           ELSE None
                    [] tag \in {"KeyPress", "KeyRelease"} ->
                         IF IsString(o, "key") /\ decode_modifiers(o) # None
                           THEN Some([type |-> tag, key |-> o["key"][2],
                                      modifiers |-> decode_modifiers(o)[1]])
                           ELSE None
                    [] tag \in {"ModifierPress", "ModifierRelease"} ->
                         IF IsString(o, "modifier")
                           THEN Some([type |-> tag, modifier |-> o["modifier"][2]])
                           ELSE None
                    [] OTHER -> None

(***************************************************************************)
(* History                                                                 *)
(***************************************************************************)
IsMotion(e) == e.type \in {"MouseMove", "Drag"} /\ e.ok

RECURSIVE LastMotion(_, _)
LastMotion(evs, dflt) ==
  IF evs = <<>> THEN dflt
  ELSE IF IsMotion(evs[Len(evs)]) THEN evs[Len(evs)].pos
  ELSE LastMotion(SubSeq(evs, 1, Len(evs) - 1), dflt)

\* The last successfully injected event of modifier m: "down", "up" or dflt.
RECURSIVE LastModEvent(_, _, _)
LastModEvent(evs, m, dflt) ==
  IF evs = <<>> THEN dflt
  ELSE LET e == evs[Len(evs)]
       IN IF e.ok /\ e.key = ModKey[m] /\ e.type \in {"KeyPress", "KeyRelease"}
            THEN IF e.type = "KeyPress" THEN "down" ELSE "up"
            ELSE LastModEvent(SubSeq(evs, 1, Len(evs) - 1), m, dflt)

AnyFailed(evs) == \E i \in 1..Len(evs) : ~evs[i].ok

Drags(evs) == {i \in 1..Len(evs) : evs[i].type = "Drag" /\ evs[i].ok}

\* The most recent command: its type, its arguments, and what it found (pre):
\* the pending deltas for a MouseUp, KeyPre for a key or modifier command.
Cmd(type, a, b, pre) == [type |-> type, a |-> a, b |-> b, pre |-> pre]

\* What a key or modifier command found: modifier_state, and for a KeyPress
\* whether the command before it was a KeyPress with the same modifier set
\* that completed without injection failure.
KeyPre(again) == [state |-> modifier_state, again |-> again]

\* cmd was processed and requested evs.
Record(cmd, evs) ==
  /\ command' = cmd
  /\ events' = evs
  /\ inj_failed' = (inj_failed \/ AnyFailed(evs))

\* The command loop before its first recv_from.  socket holds the datagrams
\* the OS has queued, each with its arrival number id and the index kind of
\* its payload; pc is the loop's position ("recv": in recv_from, "sleep": in
\* the sleep of a mouse_click it awaits, "exit": run has returned); sleeper
\* and locals belong to the mouse_click being awaited; trace lists every
\* injection requested so far with the arrival number n of its datagram;
\* dispatched holds the arrival numbers handed to handle_command; last
\* describes the datagram received most recently: whether the session was
\* left as it was (intact) and how many injections it requested (emitted);
\* errors counts the failed recv_from calls and replies the datagrams sent.
LoopInit ==
  [socket |-> <<>>, arrived |-> 0, pc |-> "recv", sleeper |-> 0, locals |-> None,
   trace |-> <<>>, dispatched |-> {},
   last |-> [id |-> 0, kind |-> 0, intact |-> TRUE, emitted |-> 0],
   errors |-> 0, replies |-> 0]

Mutexes == {"current_pos", "button_state", "last_click", "drag_state", "modifier_state"}

\* No handler is running and no mutex is held.  owner is the handler holding
\* each mutex (0: none), at the lock and unlock operations each handler has
\* still to perform (empty: the handler is not running).
LockingInit == [owner |-> [l \in Mutexes |-> 0], at |-> [t \in 1..MaxHandlers |-> <<>>]]

(***************************************************************************)
(* Actions                                                                 *)
(***************************************************************************)
\* The fields InputHandlerImpl::new gives the session (the other two backends
\* have current_pos and modifier_state alone).
new_holding ==
  [current_pos |-> None, modifier_state |-> [m \in Modifiers |-> FALSE],
   button_state |-> Some("Left"), last_click |-> None,
   drag_state |-> [pending_x |-> 0, pending_y |-> 0, last_flush |-> 0, button |-> Some("Left")]]
new ==
  [current_pos |-> None, modifier_state |-> [m \in Modifiers |-> FALSE],
   button_state |-> None, last_click |-> None,
   drag_state |-> [pending_x |-> 0, pending_y |-> 0, last_flush |-> 0, button |-> None]]

NoProbe == [base |-> None, sum |-> <<0, 0>>, queried |-> FALSE, intact |-> TRUE]

\* The process has started on backend b.
Started(b, p) ==
  /\ current_pos = new.current_pos
  /\ modifier_state = new.modifier_state
  /\ button_state = new.button_state
  /\ last_click = new.last_click
  /\ drag_state = new.drag_state
  /\ events = <<>>
  /\ command = Cmd("new", 0, 0, 0)
  /\ mod_sent = [m \in Modifiers |-> "none"]
  /\ last_motion = None
  /\ down_open = FALSE
  /\ inj_failed = FALSE
  /\ since_drag = FlushCap
  /\ held_move = FALSE
  /\ clicks = [log |-> <<>>, gap |-> -1, since |-> -1]
  /\ scen = [stage |-> 0, elapsed |-> 0, x0 |-> 0, drags |-> 0,
             last_drag |-> None, failed |-> FALSE]
  /\ loop = LoopInit
  /\ locking = LockingInit
  /\ backend = b
  /\ probe = p

Init == Started("macos", NoProbe)

DoMouseMove(x, y, fail) ==
  LET r == mouse_move(current_pos, button_state, drag_state, x, y, fail)
  IN /\ current_pos' = r.pos
     /\ drag_state' = r.drag
     /\ Record(Cmd("MouseMove", x, y, 0), r.evs)
     /\ UNCHANGED <<modifier_state, button_state, last_click>>

DoMouseDown(button, fail) ==
  LET r == mouse_down(drag_state, button, fail)
  IN /\ button_state' = r.held
     /\ drag_state' = r.drag
     /\ Record(Cmd("MouseDown", button, 0, 0), r.evs)
     /\ UNCHANGED <<current_pos, modifier_state, last_click>>

DoMouseUp(button, fail) ==
  LET r == mouse_up(current_pos, button_state, drag_state, button, fail)
  IN /\ current_pos' = r.pos
     /\ button_state' = r.held
     /\ drag_state' = r.drag
     /\ Record(Cmd("MouseUp", button, 0,
                   <<drag_state.pending_x, drag_state.pending_y>>), r.evs)
     /\ UNCHANGED <<modifier_state, last_click>>

DoMouseClick(button, fail) ==
  LET r == mouse_click(current_pos, last_click, drag_state, button, fail)
  IN /\ current_pos' = r.pos
     /\ button_state' = r.held
     /\ last_click' = r.last_click
     /\ drag_state' = r.drag
     /\ Record(Cmd("MouseClick", button, 0, 0), r.evs)
     /\ UNCHANGED modifier_state

DoKeyPress(key, modifiers, fail) ==
  LET r == key_press(modifier_state, key, modifiers, fail)
  IN /\ modifier_state' = r.state
     /\ Record(Cmd("KeyPress", key, modifiers,
                   KeyPre(command.type = "KeyPress" /\ command.b = modifiers
                          /\ ~AnyFailed(events))), r.evs)
     /\ UNCHANGED <<current_pos, button_state, last_click, drag_state>>

DoKeyRelease(key, modifiers, fail) ==
  LET r == key_release(modifier_state, key, modifiers, fail)
  IN /\ modifier_state' = r.state
     /\ Record(Cmd("KeyRelease", key, modifiers, KeyPre(FALSE)), r.evs)
     /\ UNCHANGED <<current_pos, button_state, last_click, drag_state>>

DoModifierPress(modifier, fail) ==
  LET r == modifier_press(modifier_state, modifier, fail)
  IN /\ modifier_state' = r.state
     /\ Record(Cmd("ModifierPress", modifier, 0, KeyPre(FALSE)), r.evs)
     /\ UNCHANGED <<current_pos, button_state, last_click, drag_state>>

DoModifierRelease(modifier, fail) ==
  LET r == modifier_release(modifier_state, modifier, fail)
  IN /\ modifier_state' = r.state
     /\ Record(Cmd("ModifierRelease", modifier, 0, KeyPre(FALSE)), r.evs)
     /\ UNCHANGED <<current_pos, button_state, last_click, drag_state>>

DoMouseScroll(delta_x, delta_y, fail) ==
  /\ Record(Cmd("MouseScroll", delta_x, delta_y, 0), mouse_scroll(delta_x, delta_y, fail))
  /\ UNCHANGED <<current_pos, modifier_state, button_state, last_click, drag_state>>

\* d ms pass with no command in flight.
DoTick(d) ==
  /\ drag_state' = elapse_drag(drag_state, d)
  /\ last_click' = elapse_click(last_click, d)
  /\ UNCHANGED <<current_pos, modifier_state, button_state, events, command, inj_failed>>

(***************************************************************************)
(* Drag specification: MouseDown, MouseUp and MouseMove with passing time  *)
(***************************************************************************)
DragButtons == {1, 2}
DragDeltas == {<<1, 0>>, <<-1, 0>>, <<0, 1>>}
DragSteps == {DRAG_BATCH_INTERVAL_MS \div 2, DRAG_BATCH_INTERVAL_MS}

InBox(pos) ==
  /\ pos[1] - Center[1] \in -MaxTravel..MaxTravel
  /\ pos[2] - Center[2] \in 0..MaxRise

\* The motion history after a command of the drag specification.
DragObserved ==
  /\ last_motion' = LastMotion(events', last_motion)
  /\ since_drag' = IF command'.type = "MouseMove" /\ Drags(events') # {} THEN 0 ELSE since_drag
  /\ held_move' = IF command'.type = "MouseMove"
                    THEN (held_move \/ button_state # None)
                    ELSE IF command.type = "MouseUp" THEN FALSE ELSE held_move
  /\ UNCHANGED <<mod_sent, down_open, clicks, scen, loop, locking, backend, probe>>

DragMove ==
  \E v \in DragDeltas, fail \in 0..1 :
    /\ DoMouseMove(v[1], v[2], fail)
    /\ InBox(current_pos')
    /\ DragObserved

DragDown == \E b \in DragButtons, fail \in 0..1 : DoMouseDown(b, fail) /\ DragObserved

DragUp == \E b \in DragButtons, fail \in 0..2 : DoMouseUp(b, fail) /\ DragObserved

DragTick ==
  \E d \in DragSteps :
    /\ DoTick(d)
    /\ since_drag' = Sat(since_drag + d, FlushCap)
    /\ UNCHANGED <<mod_sent, last_motion, down_open, held_move, clicks, scen, loop, locking, backend, probe>>

NextDrag == DragMove \/ DragDown \/ DragUp \/ DragTick

SpecDrag == Init /\ [][NextDrag]_vars

(***************************************************************************)
(* Keyboard specification: the four key and modifier commands              *)
(***************************************************************************)
KeyNames == {"a", "F13"}
Pressing(S) == [m \in Modifiers |-> m \in S]
ModifierSets == {Pressing({}), Pressing({"ctrl"}), Pressing({"shift", "alt"})}
ReleaseSets == {Pressing({}), Pressing({"shift"})}
ModifierNames == {"ctrl", "SHIFT", "hyper"}

KeysObserved ==
  /\ mod_sent' = [m \in Modifiers |-> LastModEvent(events', m, mod_sent[m])]
  /\ UNCHANGED <<last_motion, down_open, since_drag, held_move, clicks, scen, loop, locking, backend, probe>>

KeyPress ==
  \E k \in KeyNames, ms \in ModifierSets, fail \in 0..4 :
    DoKeyPress(k, ms, fail) /\ KeysObserved

KeyRelease ==
  \E k \in KeyNames, ms \in ReleaseSets, fail \in 0..1 :
    DoKeyRelease(k, ms, fail) /\ KeysObserved

ModifierPress ==
  \E n \in ModifierNames, fail \in 0..1 : DoModifierPress(n, fail) /\ KeysObserved

ModifierRelease ==
  \E n \in ModifierNames, fail \in 0..1 : DoModifierRelease(n, fail) /\ KeysObserved

NextKeys == KeyPress \/ KeyRelease \/ ModifierPress \/ ModifierRelease

SpecKeys == Init /\ [][NextKeys]_vars

(***************************************************************************)
(* Click specification: MouseClick commands around the double-click        *)
(* threshold                                                               *)
(***************************************************************************)
ClickButtons == {1, 2, 4}
ClickSteps == {DOUBLE_CLICK_TIMEOUT_MS - MOUSE_CLICK_DELAY_MS - 1,
               DOUBLE_CLICK_TIMEOUT_MS - MOUSE_CLICK_DELAY_MS,
               DOUBLE_CLICK_TIMEOUT_MS - MOUSE_CLICK_DELAY_MS + 1}

Latest(log) == IF Len(log) > MaxClicks THEN SubSeq(log, 2, Len(log)) ELSE log

\* The click history after a MouseClick(b): log holds the latest
\* classifications (the count is the one the press was requested with, fresh
\* tells that no click preceded it), gap is the time between the latest
\* classification and the one before it (-1 for none), and since is the time
\* since the latest classification, both saturated like last_click.time.
ClickObserved(b) ==
  /\ clicks' = [log |-> Latest(Append(clicks.log,
                          [button |-> b, count |-> events'[1].count,
                           fresh |-> clicks.log = <<>>])),
                gap |-> clicks.since,
                since |-> IF Len(events') = 2 THEN MOUSE_CLICK_DELAY_MS ELSE 0]
  /\ UNCHANGED <<mod_sent, last_motion, down_open, since_drag, held_move, scen, loop, locking, backend, probe>>

ClickClick == \E b \in ClickButtons, fail \in 0..2 : DoMouseClick(b, fail) /\ ClickObserved(b)

ClickTick ==
  \E d \in ClickSteps :
    /\ DoTick(d)
    /\ clicks' = [clicks EXCEPT !.since = IF @ = -1 THEN -1 ELSE Sat(@ + d, ClickCap)]
    /\ UNCHANGED <<mod_sent, last_motion, down_open, since_drag, held_move, scen, loop, locking, backend, probe>>

NextClick == ClickClick \/ ClickTick

SpecClick == Init /\ [][NextClick]_vars

(***************************************************************************)
(* Button specification: MouseDown, MouseUp, MouseClick and MouseMove      *)
(***************************************************************************)
ButtonIds == {1, 2}
ButtonDeltas == {<<1, 0>>}
ButtonSteps == {DOUBLE_CLICK_TIMEOUT_MS}

ButtonsObserved ==
  /\ down_open' = CASE command'.type = "MouseDown" -> TRUE
                    [] command'.type = "MouseUp" -> FALSE
                    [] OTHER -> down_open
  /\ UNCHANGED <<mod_sent, last_motion, since_drag, held_move, clicks, scen, loop, locking, backend, probe>>

ButtonMove ==
  \E v \in ButtonDeltas, fail \in 0..1 :
    /\ DoMouseMove(v[1], v[2], fail)
    /\ InBox(current_pos')
    /\ ButtonsObserved

ButtonDown == \E b \in ButtonIds, fail \in 0..1 : DoMouseDown(b, fail) /\ ButtonsObserved

ButtonUp == \E b \in ButtonIds, fail \in 0..2 : DoMouseUp(b, fail) /\ ButtonsObserved

ButtonClick == \E b \in ButtonIds, fail \in 0..2 : DoMouseClick(b, fail) /\ ButtonsObserved

ButtonTick == \E d \in ButtonSteps : DoTick(d) /\ UNCHANGED history

NextButtons == ButtonMove \/ ButtonDown \/ ButtonUp \/ ButtonClick \/ ButtonTick

SpecButtons == Init /\ [][NextButtons]_vars

(***************************************************************************)
(* Scenario specification: after any pointer moves, MouseDown(1), then     *)
(* ScenMoves times MouseMove(1, 0) within ScenWindowMs of the MouseDown,   *)
(* then MouseUp(1)                                                         *)
(***************************************************************************)
ScenSteps == {2, DRAG_BATCH_INTERVAL_MS}
ScenDeltas == {<<1, 0>>, <<-1, 0>>}

ScenObserved(stage, x0) ==
  LET ds == Drags(events')
  IN /\ scen' = [stage |-> stage, elapsed |-> scen.elapsed, x0 |-> x0,
                 drags |-> scen.drags + Cardinality(ds),
                 last_drag |-> IF ds = {} THEN scen.last_drag
                               ELSE events'[CHOOSE i \in ds : \A j \in ds : j <= i].pos,
                 failed |-> scen.failed \/ AnyFailed(events')]
     /\ UNCHANGED <<mod_sent, last_motion, down_open, since_drag, held_move, clicks, loop, locking, backend, probe>>

ScenBefore ==
  \E v \in ScenDeltas, fail \in 0..1 :
    /\ scen.stage = 0
    /\ DoMouseMove(v[1], v[2], fail)
    /\ InBox(current_pos')
    /\ UNCHANGED history

ScenDown ==
  \E fail \in 0..1 :
    /\ scen.stage = 0
    /\ DoMouseDown(1, fail)
    /\ ScenObserved(1, IF current_pos = None THEN Center[1] ELSE current_pos[1])

ScenMove ==
  \E fail \in 0..1 :
    /\ scen.stage \in 1..ScenMoves
    /\ DoMouseMove(1, 0, fail)
    /\ ScenObserved(scen.stage + 1, scen.x0)

ScenUp ==
  \E fail \in 0..2 :
    /\ scen.stage = ScenMoves + 1
    /\ DoMouseUp(1, fail)
    /\ ScenObserved(scen.stage + 1, scen.x0)

ScenTick ==
  \E d \in ScenSteps :
    /\ scen.stage \in 1..ScenMoves
    /\ scen.elapsed + d <= ScenWindowMs
    /\ DoTick(d)
    /\ scen' = [scen EXCEPT !.elapsed = @ + d]
    /\ UNCHANGED <<mod_sent, last_motion, down_open, since_drag, held_move, clicks, loop, locking, backend, probe>>

NextScenario == ScenBefore \/ ScenDown \/ ScenMove \/ ScenUp \/ ScenTick

SpecScenario == Init /\ [][NextScenario]_vars

(***************************************************************************)
(* Loop specification: CommandService::run receiving, decoding and         *)
(* dispatching datagrams while further datagrams arrive                    *)
(***************************************************************************)
MaxDatagrams == 3   \* datagrams that arrive in a run
MaxRecvErrors == 1  \* recv_from calls that fail in a run

\* The payloads that arrive: three commands and a MouseScroll without its
\* delta_x.
LoopPayloads ==
  <<Obj([type |-> Str("MouseClick"), button |-> Num(1)]),
    Obj([type |-> Str("MouseScroll"), delta_x |-> Num(1), delta_y |-> Num(1)]),
    Obj([type |-> Str("KeyPress"), key |-> Str("a"), modifiers |-> Obj([ctrl |-> Bool(TRUE)])]),
    Obj([type |-> Str("MouseScroll"), delta_y |-> Num(1)])>>

session == <<current_pos, modifier_state, button_state, last_click, drag_state>>
observed == <<mod_sent, last_motion, down_open, since_drag, held_move, clicks, scen>>

\* The loop calls recv_from only between two dispatches: it awaits
\* handle_command.
can_receive_always(pc) == pc # "exit"
can_receive(pc) == pc = "recv"

\* Where the loop goes after recv_from returned an error.
after_recv_error_exits == "exit"
after_recv_error == "recv"

Tags(n, evs) == [i \in 1..Len(evs) |-> [n |-> n, ok |-> evs[i].ok]]

\* mouse_click up to its sleep.
ClickPress(button, fail) ==
  LET r == mouse_click_press(current_pos, last_click, drag_state, button, fail = 1)
  IN /\ current_pos' = r.pos
     /\ button_state' = r.held
     /\ last_click' = r.last_click
     /\ Record(Cmd("MouseClick", button, 0, 0), r.evs)
     /\ UNCHANGED <<modifier_state, drag_state>>

\* InputHandler::handle_command; a MouseClick runs up to its sleep.
handle_command(c, fail) ==
  IF c.type = "MouseMove" THEN DoMouseMove(c.x, c.y, fail)
  ELSE IF c.type = "MouseClick" THEN ClickPress(c.button, fail)
  ELSE IF c.type = "MouseDown" THEN DoMouseDown(c.button, fail)
  ELSE IF c.type = "MouseUp" THEN DoMouseUp(c.button, fail)
  ELSE IF c.type = "MouseScroll" THEN DoMouseScroll(c.delta_x, c.delta_y, fail)
  ELSE IF c.type = "KeyPress" THEN DoKeyPress(c.key, c.modifiers, fail)
  ELSE IF c.type = "KeyRelease" THEN DoKeyRelease(c.key, c.modifiers, fail)
  ELSE IF c.type = "ModifierPress" THEN DoModifierPress(c.modifier, fail)
  ELSE DoModifierRelease(c.modifier, fail)

\* The OS queues a datagram on the socket.
LoopArrive ==
  \E k \in DOMAIN LoopPayloads :
    /\ loop.arrived < MaxDatagrams
    /\ loop' = [loop EXCEPT !.socket = Append(@, [id |-> loop.arrived + 1, kind |-> k]),
                            !.arrived = @ + 1]
    /\ UNCHANGED <<session, events, command, inj_failed, observed, locking, backend, probe>>

\* recv_from returns an error: it is logged.
LoopRecvError ==
  /\ can_receive(loop.pc)
  /\ loop.errors < MaxRecvErrors
  /\ loop' = [loop EXCEPT !.errors = @ + 1, !.pc = after_recv_error]
  /\ UNCHANGED <<session, events, command, inj_failed, observed, locking, backend, probe>>

\* recv_from returns the next datagram: it is decoded and, if that succeeds,
\* dispatched; the handler runs to its end or, for a MouseClick whose press
\* was injected, to its sleep.
LoopRecv ==
  \E fail \in 0..2 :
    /\ can_receive(loop.pc)
    /\ loop.socket # <<>>
    /\ LET d == Head(loop.socket)
           c == decode(LoopPayloads[d.kind])
           sleeps == c # None /\ c[1].type = "MouseClick" /\ fail # 1
       IN /\ IF c = None
               THEN UNCHANGED <<session, events, command, inj_failed>>
               ELSE handle_command(c[1], fail)
          /\ loop' = [loop EXCEPT
               !.socket = Tail(@),
               !.pc = IF sleeps THEN "sleep" ELSE @,
               !.sleeper = IF sleeps THEN d.id ELSE @,
               !.locals = IF sleeps
                            THEN mouse_click_press(current_pos, last_click, drag_state,
                                                   c[1].button, FALSE).locals
                            ELSE @,
               !.trace = IF c = None THEN @ ELSE @ \o Tags(d.id, events'),
               !.dispatched = IF c = None THEN @ ELSE @ \cup {d.id},
               !.last = [id |-> d.id, kind |-> d.kind,
                         intact |-> session' = session,
                         emitted |-> IF c = None THEN 0 ELSE Len(events')]]
    /\ UNCHANGED <<observed, locking, backend, probe>>

\* The sleep of the awaited mouse_click ends: the rest of the handler runs.
LoopWake ==
  \E fail \in 0..1 :
    /\ loop.pc = "sleep"
    /\ LET aged == elapse_drag(drag_state, MOUSE_CLICK_DELAY_MS)
           r == mouse_click_release(aged, loop.locals, fail = 1)
       IN /\ button_state' = r.held
          /\ drag_state' = aged
          /\ last_click' = elapse_click(last_click, MOUSE_CLICK_DELAY_MS)
          /\ events' = events \o r.evs
          /\ inj_failed' = (inj_failed \/ AnyFailed(r.evs))
          /\ loop' = [loop EXCEPT !.pc = "recv", !.locals = None,
                                  !.trace = @ \o Tags(loop.sleeper, r.evs)]
    /\ UNCHANGED <<current_pos, modifier_state, command, observed, locking, backend, probe>>

NextLoop == LoopArrive \/ LoopRecvError \/ LoopRecv \/ LoopWake

SpecLoop == Init /\ [][NextLoop]_vars

\* The loop task is scheduled whenever a datagram is queued, and a sleep ends.
SpecLoopLive == SpecLoop /\ WF_vars(LoopRecv) /\ WF_vars(LoopWake)

(***************************************************************************)
(* Locking specification: handlers run at once, each taking and dropping   *)
(* the session's mutexes in the order of its code                          *)
(***************************************************************************)
Lock(l) == <<"lock", l>>
Unlock(l) == <<"unlock", l>>

\* The mutex operations of each handler, in program order.  A guard bound by
\* `let` is dropped at the end of its block, a temporary guard at the end of
\* its statement; an early return through `?` drops the guards that are held.
resolve_pointer_position_locks == <<Lock("current_pos"), Unlock("current_pos")>>
next_click_count_locks == <<Lock("last_click"), Unlock("last_click")>>
queue_drag_event_locks == <<Lock("drag_state"), Unlock("drag_state")>>
apply_modifiers_locks == <<Lock("modifier_state"), Unlock("modifier_state")>>
modifier_press_locks == <<Lock("modifier_state"), Unlock("modifier_state")>>

flush_pending_drag_locks(pending) ==
  <<Lock("drag_state")>>
    \o (IF pending THEN resolve_pointer_position_locks ELSE <<>>)
    \o <<Unlock("drag_state")>>

mouse_move_locks(held) ==
  <<Lock("current_pos"), Lock("button_state"), Unlock("button_state"), Unlock("current_pos")>>
    \o (IF held THEN queue_drag_event_locks ELSE <<>>)

mouse_click_locks ==
  next_click_count_locks \o resolve_pointer_position_locks
    \o <<Lock("button_state"), Unlock("button_state")>>
    \o <<Lock("button_state"), Unlock("button_state")>>

mouse_down_locks_nested ==
  <<Lock("button_state"), Lock("drag_state"), Unlock("drag_state"), Unlock("button_state")>>
mouse_down_locks ==
  <<Lock("button_state"), Unlock("button_state"), Lock("drag_state"), Unlock("drag_state")>>

mouse_up_locks(pending) ==
  flush_pending_drag_locks(pending)
    \o <<Lock("button_state"), Unlock("button_state"), Lock("drag_state"), Unlock("drag_state")>>

\* The handlers that take a mutex (mouse_scroll and key_release take none;
\* key_press takes those of apply_modifiers, modifier_release those of
\* modifier_press).
HandlerLocks ==
  {mouse_move_locks(FALSE), mouse_move_locks(TRUE), mouse_click_locks, mouse_down_locks,
   mouse_up_locks(FALSE), mouse_up_locks(TRUE), apply_modifiers_locks, modifier_press_locks}

\* Handler t is called.
LockStart ==
  \E t \in 1..MaxHandlers, p \in HandlerLocks :
    /\ locking.at[t] = <<>>
    /\ locking' = [locking EXCEPT !.at[t] = p]
    /\ UNCHANGED <<session, events, command, inj_failed, observed, loop, backend, probe>>

\* Handler t takes the mutex it is waiting for, which is free.
LockAcquire ==
  \E t \in 1..MaxHandlers :
    /\ locking.at[t] # <<>>
    /\ Head(locking.at[t])[1] = "lock"
    /\ locking.owner[Head(locking.at[t])[2]] = 0
    /\ locking' = [locking EXCEPT !.owner[Head(locking.at[t])[2]] = t,
                                  !.at[t] = Tail(@)]
    /\ UNCHANGED <<session, events, command, inj_failed, observed, loop, backend, probe>>

\* Handler t drops a guard.
LockRelease ==
  \E t \in 1..MaxHandlers :
    /\ locking.at[t] # <<>>
    /\ Head(locking.at[t])[1] = "unlock"
    /\ locking' = [locking EXCEPT !.owner[Head(locking.at[t])[2]] = 0,
                                  !.at[t] = Tail(@)]
    /\ UNCHANGED <<session, events, command, inj_failed, observed, loop, backend, probe>>

NextLocks == LockStart \/ LockAcquire \/ LockRelease

SpecLocks == Init /\ [][NextLocks]_vars

(***************************************************************************)
(* Pointer specification: the pointer commands on each of the three        *)
(* backends; the backend is fixed when the process starts                  *)
(***************************************************************************)
Backends == {"macos", "unix", "windows"}
PointerDeltas == {<<1, 0>>, <<-1, 0>>, <<0, 1>>}
PointerButtons == {1}
ScrollDeltas == {0, 1}
Cursors == {None, <<Center[1] + 1, Center[2]>>}
PointerSteps == {ClickCap}

\* The pending deltas stay within the distances the box allows.
InReach(drag) ==
  /\ drag.pending_x \in -MaxTravel..MaxTravel
  /\ drag.pending_y \in 0..MaxRise

\* mouse_move of unix.rs and windows.rs; the command keeps the position the
\* handler found, whether it queried the cursor and what the query answered
\* (None when it failed or was not made).
PlainMouseMove(x, y, cursor, fail) ==
  LET r == IF backend = "unix" THEN unix_mouse_move(current_pos, cursor, x, y, fail)
                               ELSE windows_mouse_move(current_pos, cursor, x, y, fail)
  IN /\ current_pos' = r.pos
     /\ Record(Cmd("MouseMove", x, y,
                   [found |-> current_pos, queried |-> r.queried,
                    cursor |-> IF r.queried THEN cursor ELSE None]), r.evs)
     /\ UNCHANGED <<modifier_state, button_state, last_click, drag_state>>

\* The button and scroll handlers of unix.rs and windows.rs touch no field of
\* the session.
PlainCommand(type, a, b, evs) ==
  /\ Record(Cmd(type, a, b, 0), evs)
  /\ UNCHANGED session

\* The pointer history after a command: base is the position the session
\* resolved first and sum the deltas of the MouseMove commands since then.
PointerObserved ==
  LET moved == command'.type = "MouseMove"
      delta == IF moved THEN <<command'.a, command'.b>> ELSE <<0, 0>>
      first == probe.base = None /\ current_pos' # None
  IN /\ probe' = [base |-> IF first
                             THEN <<current_pos'[1] - delta[1], current_pos'[2] - delta[2]>>
                             ELSE probe.base,
                   sum |-> IF first THEN delta
                           ELSE <<probe.sum[1] + delta[1], probe.sum[2] + delta[2]>>,
                   queried |-> backend # "macos" /\ moved /\ command'.pre.queried,
                   intact |-> session' = session]
     /\ down_open' = CASE command'.type = "MouseDown" -> TRUE
                        [] command'.type = "MouseUp" -> FALSE
                        [] OTHER -> down_open
     /\ UNCHANGED <<mod_sent, last_motion, since_drag, held_move, clicks, scen, loop, locking,
                    backend>>

\* The handler the build's backend has for each pointer command.
BackendMove(x, y, cursor, fail) ==
  IF backend = "macos" THEN DoMouseMove(x, y, fail)
                       ELSE PlainMouseMove(x, y, cursor, fail)

BackendDown(b, fail) ==
  IF backend = "macos" THEN DoMouseDown(b, fail)
  ELSE IF backend = "unix" THEN PlainCommand("MouseDown", b, 0, unix_mouse_down(b, fail))
  ELSE PlainCommand("MouseDown", b, 0, windows_mouse_down(b, fail))

BackendUp(b, fail) ==
  IF backend = "macos" THEN DoMouseUp(b, fail)
  ELSE IF backend = "unix" THEN PlainCommand("MouseUp", b, 0, unix_mouse_up(b, fail))
  ELSE PlainCommand("MouseUp", b, 0, windows_mouse_up(b, fail))

BackendClick(b, fail) ==
  IF backend = "macos" THEN DoMouseClick(b, fail)
  ELSE IF backend = "unix" THEN PlainCommand("MouseClick", b, 0, unix_mouse_click(b, fail))
  ELSE PlainCommand("MouseClick", b, 0, windows_mouse_click(b, fail))

BackendScroll(dx, dy, fail) ==
  IF backend = "macos" THEN DoMouseScroll(dx, dy, fail)
  ELSE IF backend = "unix"
    THEN PlainCommand("MouseScroll", dx, dy, unix_mouse_scroll(dx, dy, fail))
  ELSE PlainCommand("MouseScroll", dx, dy, windows_mouse_scroll(dx, dy, fail))

PointerMove ==
  \E v \in PointerDeltas, cursor \in Cursors, fail \in 0..1 :
    /\ BackendMove(v[1], v[2], cursor, fail)
    /\ InBox(current_pos')
    /\ InReach(drag_state')
    /\ PointerObserved

PointerDown == \E b \in PointerButtons, fail \in 0..1 : BackendDown(b, fail) /\ PointerObserved

PointerUp == \E b \in PointerButtons, fail \in 0..2 : BackendUp(b, fail) /\ PointerObserved

PointerClick == \E b \in PointerButtons, fail \in 0..2 : BackendClick(b, fail) /\ PointerObserved

PointerScroll ==
  \E dx \in ScrollDeltas, dy \in ScrollDeltas, fail \in 0..2 :
    BackendScroll(dx, dy, fail) /\ PointerObserved

\* Only the drag-batching backend keeps Instants.
PointerTick ==
  \E d \in PointerSteps :
    /\ backend = "macos"
    /\ DoTick(d)
    /\ UNCHANGED history

NextPointer ==
  PointerMove \/ PointerDown \/ PointerUp \/ PointerClick \/ PointerScroll \/ PointerTick

InitPointer == \E b \in Backends : Started(b, NoProbe)

SpecPointer == InitPointer /\ [][NextPointer]_vars

(***************************************************************************)
(* Session specification: the pointer commands of the drag-batching        *)
(* backend and of the unix backend, each recorded with the session it      *)
(* found                                                                   *)
(***************************************************************************)
SessionIds == {1, 2}
SessionClicks == {2}
SessionDeltas == {<<1, 0>>, <<-1, 0>>}
SessionSteps == {DOUBLE_CLICK_TIMEOUT_MS}
SessionBackends == {"macos", "unix"}

\* The fields of the session as a command finds them.
Found ==
  [current_pos |-> current_pos, modifier_state |-> modifier_state,
   button_state |-> button_state, last_click |-> last_click, drag_state |-> drag_state]

SessionObserved ==
  /\ probe' = [found |-> Found]
  /\ down_open' = CASE command'.type = "MouseDown" -> TRUE
                     [] command'.type = "MouseUp" -> FALSE
                     [] OTHER -> down_open
  /\ UNCHANGED <<mod_sent, last_motion, since_drag, held_move, clicks, scen, loop, locking,
                 backend>>

SessionMove ==
  \E v \in SessionDeltas, cursor \in Cursors, fail \in 0..1 :
    /\ BackendMove(v[1], v[2], cursor, fail)
    /\ InBox(current_pos')
    /\ InReach(drag_state')
    /\ SessionObserved

SessionDown == \E b \in SessionIds, fail \in 0..1 : BackendDown(b, fail) /\ SessionObserved

SessionUp == \E b \in SessionClicks, fail \in 0..2 : BackendUp(b, fail) /\ SessionObserved

SessionClick == \E b \in SessionClicks, fail \in 0..1 : BackendClick(b, fail) /\ SessionObserved

\* Only the drag-batching backend keeps Instants.
SessionTick ==
  \E d \in SessionSteps :
    /\ backend = "macos"
    /\ DoTick(d)
    /\ UNCHANGED history

NextSession == SessionMove \/ SessionDown \/ SessionUp \/ SessionClick \/ SessionTick

InitSession == \E b \in SessionBackends : Started(b, [found |-> new])

SpecSession == InitSession /\ [][NextSession]_vars

(***************************************************************************)
(* Mapping specification: MouseClick, MouseDown and MouseUp with button    *)
(* ids inside and outside 1..3, on each backend                            *)
(***************************************************************************)
MappedIds == {0, 1, 2, 3, 4, 255}

MappingDown == \E b \in MappedIds, fail \in 0..1 : BackendDown(b, fail) /\ UNCHANGED history

MappingUp == \E b \in MappedIds, fail \in 0..1 : BackendUp(b, fail) /\ UNCHANGED history

MappingClick == \E b \in MappedIds, fail \in 0..2 : BackendClick(b, fail) /\ UNCHANGED history

NextMapping == MappingDown \/ MappingUp \/ MappingClick

SpecMapping == InitPointer /\ [][NextMapping]_vars

(***************************************************************************)
(* Decoding specification: one datagram, drawn from the payloads below, is *)
(* received, decoded and, if that succeeds, dispatched                     *)
(***************************************************************************)
Null == <<"null">>
Absent == <<"absent">>
EmptyObject == [f \in {} |-> Absent]

\* The object o with field f set to v, or o itself when v is Absent.
With(o, f, v) ==
  IF v = Absent THEN o
  ELSE [g \in DOMAIN o \cup {f} |-> IF g = f THEN v ELSE o[g]]

Tagged(t) == With(EmptyObject, "type", Str(t))

ButtonValues ==
  {Absent, Null, Str("1"), Num(-1), Num(0), Num(1), Num(2), Num(3), Num(4), Num(255), Num(256)}
NumberValues == {Absent, Str("1"), Num(0), Num(1)}
KeyValues == {Absent, Num(1), Str("a")}
ModifierObjects ==
  {Absent, Null, Str("ctrl"), Obj(EmptyObject),
   Obj([ctrl |-> Num(1)]),
   Obj([ctrl |-> Bool(TRUE)]),
   Obj([ctrl |-> Bool(TRUE), shift |-> Bool(FALSE)]),
   Obj([ctrl |-> Bool(FALSE), alt |-> Bool(TRUE), shift |-> Bool(TRUE), meta |-> Bool(TRUE)]),
   Obj([ctrl |-> Bool(TRUE), hyper |-> Bool(TRUE)])}

DecodePayloads ==
  {Obj(With(Tagged(t), "button", v)) :
     t \in {"MouseClick", "MouseDown", "MouseUp"}, v \in ButtonValues}
  \cup {Obj(With(With(Tagged("MouseMove"), "x", a), "y", b)) : a, b \in NumberValues}
  \cup {Obj(With(With(Tagged("MouseScroll"), "delta_x", a), "delta_y", b)) :
          a, b \in NumberValues}
  \cup {Obj(With(With(Tagged(t), "key", k), "modifiers", m)) :
          t \in {"KeyPress", "KeyRelease"}, k \in KeyValues, m \in ModifierObjects}
  \cup {Obj(With(Tagged(t), "modifier", v)) :
          t \in {"ModifierPress", "ModifierRelease"}, v \in {Absent, Bool(TRUE), Str("ctrl")}}
  \cup {Obj(Tagged("InvalidCommand")),
        Obj(With(Tagged("mouseclick"), "button", Num(1))),
        Obj(With(With(Tagged("MouseClick"), "button", Num(1)), "x", Num(1))),
        Obj([x |-> Num(1), y |-> Num(1)]),
        Obj([type |-> Num(1), button |-> Num(1)]),
        Str("MouseMove"), Num(1), Null}

\* The loop body of CommandService::run for the datagram that is queued.
DecodeDatagram ==
  \E fail \in 0..1 :
    /\ probe.stage = "queued"
    /\ LET c == decode(probe.payload)
       IN /\ IF c = None
               THEN UNCHANGED <<session, events, command, inj_failed>>
               ELSE handle_command(c[1], fail)
          /\ probe' = [probe EXCEPT !.stage = "decoded", !.command = c]
    /\ UNCHANGED <<observed, loop, locking, backend>>

NextDecode == DecodeDatagram

InitDecode ==
  \E v \in DecodePayloads : Started("macos", [payload |-> v, stage |-> "queued", command |-> None])

SpecDecode == InitDecode /\ [][NextDecode]_vars

(***************************************************************************)
(* Key mapping specification: one key name, drawn from the names below, is *)
(* mapped by each backend's mapping function                               *)
(***************************************************************************)
Range(f) == {f[i] : i \in DOMAIN f}

\* Names no backend maps: a function key, the empty string, two characters,
\* ASCII characters outside the table, a key spelled out.
OtherNames == {"F13", "", "ab", "10", "~", "@", "#", "Enter", "shift"}

MappedNames == DOMAIN KeyTable \cup Range(LowerLetters) \cup Range(UpperLetters)
                 \cup Range(Digits) \cup OtherNames

\* The three mapping functions are applied to the name.
MapKey ==
  /\ probe.stage = "named"
  /\ probe' = [probe EXCEPT !.stage = "mapped",
                            !.macos = string_to_key(probe.name),
                            !.unix = unix_string_to_key(probe.name),
                            !.windows = string_to_vk(probe.name)]
  /\ UNCHANGED <<session, events, command, inj_failed, observed, loop, locking, backend>>

NextKeyMap == MapKey

InitKeyMap ==
  \E n \in MappedNames :
    Started("macos", [name |-> n, stage |-> "named", macos |-> None, unix |-> None,
                      windows |-> None])

SpecKeyMap == InitKeyMap /\ [][NextKeyMap]_vars

(***************************************************************************)
(* Claims                                                                  *)
(***************************************************************************)
Pending == <<drag_state.pending_x, drag_state.pending_y>>
DragRequests(evs) == {i \in 1..Len(evs) : evs[i].type = "Drag"}
FlushFailed(evs) == \E i \in DragRequests(evs) : ~evs[i].ok

\* C1: after any sequence of key and modifier commands, failed injections
\* included, each modifier_state bit is true exactly when the most recent
\* successfully injected event of that modifier is a key-down.
C1_ModifierStateFollowsEvents ==
  \A m \in Modifiers : modifier_state[m] <=> (mod_sent[m] = "down")

\* C2: after any sequence of MouseDown, MouseUp, MouseClick and MouseMove
\* commands without injection failure, held_button is Some exactly when a
\* MouseDown has been processed and its MouseUp has not.
C2_HeldExactlyBetweenDownAndUp ==
  ~inj_failed => ((button_state # None) <=> down_open)

C4_NoMovementLost ==
  (command.type = "MouseUp" /\ ~inj_failed /\ held_move /\ last_motion # None)
    => last_motion = current_pos

\* C5: a MouseMove requests a drag event only when at least 16 ms have
\* elapsed since the last flush timestamp, and injects one only when at least
\* 16 ms have elapsed since the drag event of the previous MouseMove.
C5_MoveDragsOncePerInterval ==
  command.type = "MouseMove" =>
    \A i \in DragRequests(events) :
      /\ events[i].held # None
      /\ events[i].age >= DRAG_BATCH_INTERVAL_MS
      /\ events[i].ok => events[i].since >= DRAG_BATCH_INTERVAL_MS

\* A MouseMove with a button held injected a drag event.
C5_Witness == command.type = "MouseMove" /\ Drags(events) # {} /\ button_state # None

\* C6: a MouseUp that finds a pending delta requests exactly one drag event,
\* first, carrying the pointer position, whatever time has elapsed since the
\* last flush; a MouseUp that finds both pending deltas zero requests none.
C6_UpFlushesPending ==
  command.type = "MouseUp" =>
    IF command.pre # <<0, 0>>
      THEN /\ DragRequests(events) = {1}
           /\ events[1].pos = current_pos
      ELSE DragRequests(events) = {}

\* A MouseUp flushed a pending delta less than 16 ms after the last flush.
C6_Witness ==
  /\ command.type = "MouseUp"
  /\ Len(events) = 2
  /\ events[1].type = "Drag" /\ events[1].ok
  /\ events[1].age < DRAG_BATCH_INTERVAL_MS

\* C7: the scenario injects at most 4 drag events; when it completes without
\* injection failure the last drag event carries the starting x plus the
\* number of moves, and the last event requested is the injected
\* button-release.
C7_DragScenario ==
  /\ scen.drags <= 4
  /\ (scen.stage = ScenMoves + 2 /\ ~scen.failed) =>
       /\ scen.last_drag # None
       /\ scen.last_drag[1] = scen.x0 + ScenMoves
       /\ events[Len(events)].type = "ButtonRelease"
       /\ events[Len(events)].ok

\* The scenario completed with 4 drag events.
C7_Witness == scen.stage = ScenMoves + 2 /\ ~scen.failed /\ scen.drags = 4

Prev == clicks.log[Len(clicks.log) - 1]
Cur == clicks.log[Len(clicks.log)]

\* C8 as stated: after a MouseClick(1) classified 1, a MouseClick(1) less than
\* 350 ms later is classified 2 and one 350 ms or more later is classified 1.
C8_DoubleClickBelowTimeout ==
  (Len(clicks.log) >= 2 /\ Prev.button = 1 /\ Cur.button = 1 /\ Prev.count = 1) =>
    Cur.count = IF clicks.gap < DOUBLE_CLICK_TIMEOUT_MS THEN 2 ELSE 1

\* C8 amended: after a MouseClick(1) classified 1, a MouseClick(1) at most
\* 350 ms later is classified 2 and one more than 350 ms later is classified 1.
C8_DoubleClickWithinTimeout ==
  (Len(clicks.log) >= 2 /\ Prev.button = 1 /\ Cur.button = 1 /\ Prev.count = 1) =>
    Cur.count = IF clicks.gap <= DOUBLE_CLICK_TIMEOUT_MS THEN 2 ELSE 1

\* Two MouseClick(1) exactly 350 ms apart were classified 1 and 2.
C8_Witness ==
  /\ Len(clicks.log) >= 2 /\ Prev.button = 1 /\ Cur.button = 1
  /\ Prev.count = 1 /\ Cur.count = 2
  /\ clicks.gap = DOUBLE_CLICK_TIMEOUT_MS

\* C9: in three consecutive clicks on buttons a, b, a with a # b the second
\* and the third are classified 1, and so is the first when it is the first
\* click of the session, however close together they are.
C9_OtherButtonResets ==
  \A i \in 1..(Len(clicks.log) - 2) :
    LET c1 == clicks.log[i]
        c2 == clicks.log[i + 1]
        c3 == clicks.log[i + 2]
    IN (c1.button = c3.button /\ c2.button # c1.button) =>
         /\ c2.count = 1
         /\ c3.count = 1
         /\ c1.fresh => c1.count = 1

\* Click(1), Click(2), Click(1) from a new session, the third right after the
\* second.
C9_Witness ==
  /\ Len(clicks.log) = 3
  /\ clicks.log[1].fresh
  /\ clicks.log[1].button = 1 /\ clicks.log[2].button = 2 /\ clicks.log[3].button = 1
  /\ clicks.gap <= MOUSE_CLICK_DELAY_MS

\* C10: every click is classified 1 or 2, a click classified 2 is followed
\* by a click classified 1, same-button clicks within the timeout alternate,
\* and last_click holds the button, the instant and the count of the latest
\* classification.
C10_CountsAlternate ==
  /\ \A i \in 1..Len(clicks.log) : clicks.log[i].count \in {1, 2}
  /\ \A i \in 1..(Len(clicks.log) - 1) : clicks.log[i].count = 2 => clicks.log[i + 1].count = 1
  /\ (Len(clicks.log) >= 2 /\ Prev.button = Cur.button /\ clicks.gap <= DOUBLE_CLICK_TIMEOUT_MS)
       => Cur.count = 3 - Prev.count
  /\ clicks.log # <<>> =>
       last_click = Some([button |-> Cur.button, time |-> clicks.since, count |-> Cur.count])
  /\ clicks.log = <<>> => last_click = None

\* Three rapid clicks on one button were classified 1, 2, 1.
C10_Witness ==
  /\ Len(clicks.log) = 3
  /\ clicks.log[1].count = 1 /\ clicks.log[2].count = 2 /\ clicks.log[3].count = 1
  /\ clicks.log[1].button = clicks.log[2].button /\ clicks.log[2].button = clicks.log[3].button
  /\ clicks.gap <= DOUBLE_CLICK_TIMEOUT_MS

ModKeys == {ModKey[m] : m \in Modifiers}
EventsOf(evs, m) == {i \in 1..Len(evs) : evs[i].key = ModKey[m]}
ModEvents(evs) == {i \in 1..Len(evs) : evs[i].key \in ModKeys}
DiffFailed(evs) == \E i \in ModEvents(evs) : ~evs[i].ok

\* C11: the modifier diffing of a KeyPress requests no event for a modifier
\* already in the desired state and at most one, towards the desired state,
\* for a modifier that differs; exactly one for each that differs when no
\* injection of the diff fails.  Against an already-matching set it requests
\* nothing and leaves modifier_state unchanged, and a KeyPress that follows a
\* completed KeyPress with the same set requests no modifier event.
C11_DiffEmitsOncePerDifference ==
  command.type = "KeyPress" =>
    LET pre == command.pre.state
        want == command.b
    IN /\ \A m \in Modifiers :
            /\ pre[m] = want[m] => EventsOf(events, m) = {}
            /\ Cardinality(EventsOf(events, m)) <= 1
            /\ \A i \in EventsOf(events, m) :
                 events[i].type = IF want[m] THEN "KeyPress" ELSE "KeyRelease"
            /\ (pre[m] # want[m] /\ ~DiffFailed(events)) =>
                 Cardinality(EventsOf(events, m)) = 1
       /\ pre = want => (ModEvents(events) = {} /\ modifier_state = pre)
       /\ command.pre.again => ModEvents(events) = {}

\* The same non-empty modifier set was applied twice in a row; the second
\* KeyPress requested the key event alone.
C11_Witness ==
  /\ command.type = "KeyPress"
  /\ command.pre.again
  /\ command.b["shift"] /\ command.b["alt"]
  /\ Len(events) = 1

\* C12: when a KeyPress completes without injection failure, its modifier
\* events all precede its key event, the key event (for a mapped key) is the
\* last event, and modifier_state, which nothing changes after the diff,
\* equals the command's modifier set.
C12_KeySentInRequestedContext ==
  (command.type = "KeyPress" /\ ~AnyFailed(events)) =>
    /\ modifier_state = command.b
    /\ \A i \in 1..Len(events) : i \notin ModEvents(events) => i = Len(events)
    /\ string_to_key(command.a) # None =>
         /\ events # <<>>
         /\ events[Len(events)].type = "KeyPress"
         /\ Some(events[Len(events)].key) = string_to_key(command.a)

\* A completed KeyPress had to press shift and alt and to release ctrl, which
\* an earlier command had left down.
C12_Witness ==
  /\ command.type = "KeyPress" /\ ~AnyFailed(events)
  /\ command.pre.state["ctrl"] /\ ~command.b["ctrl"]
  /\ ~command.pre.state["shift"] /\ command.b["shift"]
  /\ Len(events) >= 3
  /\ events[Len(events)].key = "KeyA"

\* C13 as stated: a KeyPress or KeyRelease whose key name has no mapping
\* requests no event of any kind.
C13_UnmappedKeyEmitsNothing ==
  (command.type \in {"KeyPress", "KeyRelease"} /\ string_to_key(command.a) = None) =>
    events = <<>>

\* C13 amended: a KeyRelease whose key name has no mapping requests no event;
\* a KeyPress whose key name has no mapping requests no key event, only the
\* modifier events of its diff, and none at all when modifier_state already
\* equals its modifier set.
C13_UnmappedKeyEmitsNoKeyEvent ==
  (command.type \in {"KeyPress", "KeyRelease"} /\ string_to_key(command.a) = None) =>
    /\ ModEvents(events) = 1..Len(events)
    /\ command.type = "KeyRelease" => events = <<>>
    /\ command.pre.state = command.b => events = <<>>

\* A KeyPress with an unmapped key name injected a modifier event.
C13_Witness ==
  /\ command.type = "KeyPress"
  /\ string_to_key(command.a) = None
  /\ events # <<>> /\ events[1].ok

\* C14: a KeyRelease leaves modifier_state as it found it and requests at most
\* one event, the release of the mapped key, which is no modifier key.
C14_KeyReleaseKeepsModifiers ==
  command.type = "KeyRelease" =>
    /\ modifier_state = command.pre.state
    /\ Len(events) <= 1
    /\ \A i \in 1..Len(events) :
         /\ events[i].type = "KeyRelease"
         /\ events[i].key \notin ModKeys
         /\ Some(events[i].key) = string_to_key(command.a)

\* A KeyRelease carried a modifier set different from modifier_state and
\* released its key.
C14_Witness ==
  /\ command.type = "KeyRelease"
  /\ command.b # command.pre.state
  /\ Len(events) = 1

\* C15: a ModifierPress (ModifierRelease) with a recognized name leaves the
\* named bit set (cleared) and every other bit as found, and requests exactly
\* one event, the key-down (key-up) of that modifier, whatever the bit was.
C15_ModifierCommandsUnconditional ==
  (command.type \in {"ModifierPress", "ModifierRelease"}
     /\ modifier_arm(command.a) # None) =>
    LET m == modifier_arm(command.a)[1]
        v == (command.type = "ModifierPress")
    IN /\ modifier_state = [command.pre.state EXCEPT ![m] = v]
       /\ Len(events) = 1
       /\ events[1].type = IF v THEN "KeyPress" ELSE "KeyRelease"
       /\ events[1].key = ModKey[m]

\* A ModifierPress found its bit already set and injected a key-down.
C15_Witness ==
  /\ command.type = "ModifierPress"
  /\ modifier_arm(command.a) # None
  /\ command.pre.state[modifier_arm(command.a)[1]]
  /\ Len(events) = 1 /\ events[1].ok

OfDatagram(n) == SelectSeq(loop.trace, LAMBDA e : e.n = n)

\* C16: the arrival numbers along the emitted trace never decrease, so the
\* events of one datagram are contiguous and in arrival order; the events of
\* the datagram received last are those of the most recent command; and while
\* a MouseClick sleeps between its press and its release no other datagram
\* has been received and the press is the last event emitted.
C16_DispatchInArrivalOrder ==
  /\ \A i \in 1..Len(loop.trace) : \A j \in i..Len(loop.trace) :
       loop.trace[i].n <= loop.trace[j].n
  /\ \A i \in 1..Len(loop.socket) : loop.socket[i].id > loop.last.id
  /\ loop.last.id \in loop.dispatched =>
       OfDatagram(loop.last.id) = Tags(loop.last.id, events)
  /\ loop.pc = "sleep" =>
       /\ loop.last.id = loop.sleeper
       /\ loop.trace # <<>>
       /\ loop.trace[Len(loop.trace)].n = loop.sleeper
       /\ events[Len(events)].type = "ButtonPress"

\* A MouseClick injected its press and its release while a datagram that
\* arrived during its sleep was waiting, and that datagram was dispatched next.
C16_Witness ==
  /\ Len(loop.trace) >= 3
  /\ loop.trace[1].n = 1 /\ loop.trace[2].n = 1 /\ loop.trace[3].n = 2
  /\ command.type = "MouseScroll"
  /\ loop.arrived = 2

Required ==
  [MouseMove |-> {<<"x", "num">>, <<"y", "num">>},
   MouseClick |-> {<<"button", "num">>},
   MouseDown |-> {<<"button", "num">>},
   MouseUp |-> {<<"button", "num">>},
   MouseScroll |-> {<<"delta_x", "num">>, <<"delta_y", "num">>},
   KeyPress |-> {<<"key", "str">>},
   KeyRelease |-> {<<"key", "str">>},
   ModifierPress |-> {<<"modifier", "str">>},
   ModifierRelease |-> {<<"modifier", "str">>}]

Malformed(v) ==
  \/ v[1] # "obj"
  \/ "type" \notin DOMAIN v[2]
  \/ v[2]["type"][1] # "str"
  \/ v[2]["type"][2] \notin DOMAIN Required
  \/ \E f \in Required[v[2]["type"][2]] :
       f[1] \notin DOMAIN v[2] \/ v[2][f[1]][1] # f[2]

\* C18: when the datagram received last is malformed, it requested no
\* injection, left every field of the session as it was, was not handed to
\* handle_command, and no datagram was sent in response.
C18_UndecodableDiscarded ==
  (loop.last.id > 0 /\ Malformed(LoopPayloads[loop.last.kind])) =>
    /\ loop.last.emitted = 0
    /\ loop.last.intact
    /\ loop.last.id \notin loop.dispatched
    /\ OfDatagram(loop.last.id) = <<>>
    /\ loop.replies = 0

\* A MouseScroll datagram without delta_x was received after a command had
\* changed the session.
C18_Witness ==
  /\ loop.last.kind = 4
  /\ loop.last.id = 2
  /\ 1 \in loop.dispatched
  /\ loop.trace # <<>>

\* The decodable datagrams that have arrived and are not dispatched yet.
Waiting ==
  {loop.socket[i].id : i \in {j \in 1..Len(loop.socket) :
                                decode(LoopPayloads[loop.socket[j].kind]) # None}}

\* C19: the loop never leaves its cycle of recv_from and dispatch, and
\* whenever decodable datagrams wait on the socket a state follows in which
\* all of them have been dispatched, whatever receive errors, decode failures
\* and injection failures happen.
C19_LoopKeepsDispatching ==
  /\ [](loop.pc \in {"recv", "sleep"})
  /\ []<>(Waiting = {} /\ loop.pc = "recv")

\* A datagram was dispatched after a receive error, an undecodable datagram
\* and a failed injection.
C19_Witness ==
  /\ loop.errors > 0
  /\ \E k \in loop.dispatched :
       /\ \E j \in 1..(k - 1) : j \notin loop.dispatched
       /\ \E i \in 1..Len(loop.trace) : ~loop.trace[i].ok /\ loop.trace[i].n < k

\* The order in which the code nests the mutexes.
LockRank ==
  [drag_state |-> 1, current_pos |-> 2, button_state |-> 3, last_click |-> 4,
   modifier_state |-> 5]

Running(t) == locking.at[t] # <<>>
Requesting(t) == Running(t) /\ Head(locking.at[t])[1] = "lock"
Requested(t) == Head(locking.at[t])[2]
HeldBy(t) == {l \in Mutexes : locking.owner[l] = t}

\* C20: a handler never requests a mutex it holds; every mutex it requests
\* comes later in one fixed order (drag_state, current_pos, button_state)
\* than each mutex it holds; and whenever handlers are running at once, one
\* of them can take its next step.
C20_LocksOrderedNoDeadlock ==
  /\ \A t \in 1..MaxHandlers :
       Requesting(t) =>
         /\ locking.owner[Requested(t)] # t
         /\ \A h \in HeldBy(t) : LockRank[h] < LockRank[Requested(t)]
  /\ (\E t \in 1..MaxHandlers : Running(t)) =>
       \E t \in 1..MaxHandlers :
         Running(t) /\ (Requesting(t) => locking.owner[Requested(t)] = 0)

\* Three handlers run at once: one holds drag_state and waits for current_pos,
\* which a second holds while it waits for button_state, which a third holds.
C20_Witness ==
  \E t, u, w \in 1..MaxHandlers :
    /\ locking.owner["drag_state"] = t
    /\ Requesting(t) /\ Requested(t) = "current_pos"
    /\ locking.owner["current_pos"] = u
    /\ Requesting(u) /\ Requested(u) = "button_state"
    /\ locking.owner["button_state"] = w

\* C21: pointer_position is absent exactly until a base is resolved, and from
\* then on it is that base plus the deltas of the MouseMove commands processed
\* since, whatever other commands came between; the base is the fallback
\* centre or, on the two backends that have one, the cursor query's answer;
\* and the cursor is queried only by a MouseMove that found no position.
C21_PositionIsBasePlusDeltas ==
  /\ (current_pos = None) <=> (probe.base = None)
  /\ current_pos # None =>
       /\ current_pos = <<probe.base[1] + probe.sum[1], probe.base[2] + probe.sum[2]>>
       /\ probe.base \in (Cursors \ {None}) \cup {Center}
       /\ backend = "macos" => probe.base = Center
  /\ probe.queried => (command.type = "MouseMove" /\ command.pre.found = None)

\* On the unix backend the first MouseMove took the cursor's coordinates as
\* base, later moves added their deltas, and a MouseClick followed.
C21_Witness ==
  /\ backend = "unix"
  /\ probe.base = <<Center[1] + 1, Center[2]>>
  /\ probe.sum = <<-1, 1>>
  /\ current_pos = <<Center[1], Center[2] + 1>>
  /\ command.type = "MouseClick"

Primary(button) == IF button = 2 THEN "Right" ELSE IF button = 3 THEN "Middle" ELSE "Left"

ButtonEvents(evs) == {i \in 1..Len(evs) : evs[i].type \in {"ButtonPress", "ButtonRelease"}}

\* C22: on every backend, each button event a MouseClick, MouseDown or MouseUp
\* requests is for the secondary button when the id is 2, the middle one when
\* it is 3 and the primary one for every other id; no id makes the command
\* request fewer events than it does for id 1 (a press and a release for a
\* MouseClick, one event for the others, when no injection fails); and on
\* the drag-batching backend a MouseDown holds the mapped button.
C22_ButtonMappingTotal ==
  command.type \in {"MouseClick", "MouseDown", "MouseUp"} =>
    /\ \A i \in ButtonEvents(events) : events[i].button = Some(Primary(command.a))
    /\ ~AnyFailed(events) =>
         Cardinality(ButtonEvents(events)) = IF command.type = "MouseClick" THEN 2 ELSE 1
    /\ (backend = "macos" /\ command.type = "MouseDown") =>
         button_state = Some(Primary(command.a))

\* A MouseClick with button id 255 pressed and released the primary button on
\* the windows backend.
C22_Witness ==
  /\ backend = "windows"
  /\ command.type = "MouseClick" /\ command.a = 255
  /\ Len(events) = 2
  /\ events[1].button = Some("Left") /\ events[2].button = Some("Left")

\* The payload is an object with a type tag and an integer as button.
ButtonPayload(v) ==
  /\ v[1] = "obj"
  /\ IsString(v[2], "type")
  /\ v[2]["type"][2] \in {"MouseClick", "MouseDown", "MouseUp"}
  /\ "button" \in DOMAIN v[2]
  /\ v[2]["button"][1] = "num"

\* The datagram was accepted and handled as button 1 is.
HandledAsPrimary ==
  /\ probe.command # None
  /\ command.type = probe.payload[2]["type"][2]
  /\ ButtonEvents(events) # {}
  /\ \A i \in ButtonEvents(events) : events[i].button = Some("Left")

\* C23 as stated: a MouseClick, MouseDown or MouseUp datagram whose button is
\* any integer other than 1, 2 or 3 is accepted and handled as button 1.
C23_AnyOtherButtonIsPrimary ==
  (probe.stage = "decoded" /\ ButtonPayload(probe.payload)
     /\ probe.payload[2]["button"][2] \notin {1, 2, 3}) =>
    HandledAsPrimary

\* C23 amended: such a datagram is accepted and handled as button 1 when its
\* button is an integer of 0..255 other than 1, 2 or 3; when the integer is
\* negative or above 255 the datagram fails to decode: nothing is dispatched
\* and no event is requested.
C23_OtherU8ButtonIsPrimary ==
  (probe.stage = "decoded" /\ ButtonPayload(probe.payload)
     /\ probe.payload[2]["button"][2] \notin {1, 2, 3}) =>
    IF probe.payload[2]["button"][2] \in 0..255
      THEN HandledAsPrimary
      ELSE probe.command = None /\ events = <<>> /\ command.type = "new"

\* A MouseDown datagram with button 255 pressed the primary button.
C23_Witness ==
  /\ probe.stage = "decoded"
  /\ probe.payload = Obj([type |-> Str("MouseDown"), button |-> Num(255)])
  /\ button_state = Some("Left")
  /\ Len(events) = 1 /\ events[1].button = Some("Left")

\* The payload is a KeyPress or KeyRelease object with a string as key.
KeyPayload(v) ==
  /\ v[1] = "obj"
  /\ IsString(v[2], "type")
  /\ v[2]["type"][2] \in {"KeyPress", "KeyRelease"}
  /\ IsString(v[2], "key")

GivenModifiers(v) == IF "modifiers" \in DOMAIN v[2] THEN v[2]["modifiers"] ELSE Absent

\* The modifiers given are an object whose ctrl, alt, shift and meta fields,
\* where present, are booleans.
ModifiersTyped(g) ==
  /\ g[1] = "obj"
  /\ \A m \in Modifiers \cap DOMAIN g[2] : g[2][m][1] = "bool"

\* The modifier set the wire format gives a key command.
WireModifiers(g) ==
  [m \in Modifiers |-> IF g # Absent /\ m \in DOMAIN g[2] THEN g[2][m][2] ELSE FALSE]

\* C25: a KeyPress or KeyRelease payload with a key decodes when it has no
\* modifiers object, to all four modifiers false, and when its modifiers
\* object leaves fields out, to false for each field left out and the value
\* given for the others; the handler is called with that modifier set.
C25_MissingModifiersDefault ==
  (probe.stage = "decoded" /\ KeyPayload(probe.payload)) =>
    LET g == GivenModifiers(probe.payload)
    IN (g = Absent \/ ModifiersTyped(g)) =>
         /\ probe.command # None
         /\ probe.command[1].modifiers = WireModifiers(g)
         /\ g = Absent => \A m \in Modifiers : ~probe.command[1].modifiers[m]
         /\ command.type = probe.payload[2]["type"][2]
         /\ command.b = WireModifiers(g)

\* A KeyPress whose modifiers object names ctrl and shift alone was decoded
\* and pressed ctrl before the key.
C25_Witness ==
  /\ probe.stage = "decoded"
  /\ probe.payload = Obj([type |-> Str("KeyPress"), key |-> Str("a"),
                          modifiers |-> Obj([ctrl |-> Bool(TRUE), shift |-> Bool(FALSE)])])
  /\ probe.command[1].modifiers = Pressing({"ctrl"})
  /\ Len(events) = 2
  /\ events[1].key = ModKey["ctrl"] /\ events[2].key = "KeyA"

\* A number given as button is no u8.
ButtonOutOfRange(v) ==
  /\ ~Malformed(v)
  /\ v[2]["type"][2] \in {"MouseClick", "MouseDown", "MouseUp"}
  /\ v[2]["button"][2] \notin 0..255

\* Every field the payload's variant has is given with the type of the field.
WellFormed(v) ==
  /\ ~Malformed(v)
  /\ ~ButtonOutOfRange(v)
  /\ v[2]["type"][2] \in {"KeyPress", "KeyRelease"} =>
       (GivenModifiers(v) = Absent \/ ModifiersTyped(GivenModifiers(v)))

\* C26: a payload with no known type tag, or with a required field missing or
\* of the wrong type (a string for a number, a number for a string, a number
\* outside 0..255 for a button), fails to decode; a well-formed payload
\* decodes to the variant its tag names, each required field with the value
\* given, and that variant's handler is the one called.
C26_DecodeIsSchemaExact ==
  probe.stage = "decoded" =>
    LET v == probe.payload
    IN /\ (Malformed(v) \/ ButtonOutOfRange(v)) =>
            (probe.command = None /\ command.type = "new" /\ events = <<>>)
       /\ WellFormed(v) =>
            /\ probe.command # None
            /\ probe.command[1].type = v[2]["type"][2]
            /\ \A f \in Required[v[2]["type"][2]] :
                 probe.command[1][f[1]] = v[2][f[1]][2]
            /\ command.type = v[2]["type"][2]

\* The payload {"type":"MouseMove","x":1,"y":1} was decoded and moved the
\* pointer.
C26_Witness ==
  /\ probe.stage = "decoded"
  /\ probe.payload = Obj([type |-> Str("MouseMove"), x |-> Num(1), y |-> Num(1)])
  /\ probe.command = Some([type |-> "MouseMove", x |-> 1, y |-> 1])
  /\ current_pos = <<Center[1] + 1, Center[2] + 1>>

\* The unshifted character of each shifted character the claim lists.
Unshifted ==
  [c \in {"!", "<", ">", ":", "_", "+", "{", "}", "?", "|"} |->
     CASE c = "!" -> "1" [] c = "<" -> "," [] c = ">" -> "." [] c = ":" -> ";"
       [] c = "_" -> "-" [] c = "+" -> "=" [] c = "{" -> "[" [] c = "}" -> "]"
       [] c = "?" -> "/" [] c = "|" -> "\\"]

LetterOf(n) == {i \in 1..26 : n = LowerLetters[i] \/ n = UpperLetters[i]}

\* C24: for a mapped name, the three backends agree on whether it has a
\* mapping, and the two that share a key type agree on the key; a letter maps
\* in either case to its letter key and a digit to its digit key; a shifted
\* character maps to the key its unshifted counterpart maps to; a name outside
\* the table that is no single ASCII letter or digit has no mapping.
C24_KeyMapping ==
  probe.stage = "mapped" =>
    LET n == probe.name
    IN /\ probe.unix = probe.macos
       /\ (probe.windows = None) <=> (probe.macos = None)
       /\ \A i \in LetterOf(n) :
            /\ probe.macos = Some("Key" \o UpperLetters[i])
            /\ probe.windows = Some("VK_" \o UpperLetters[i])
       /\ n \in Range(Digits) =>
            /\ probe.macos = Some("Num" \o n)
            /\ probe.windows = Some("VK_" \o n)
       /\ n \in DOMAIN Unshifted =>
            /\ probe.macos # None
            /\ probe.macos = string_to_key(Unshifted[n])
            /\ probe.unix = unix_string_to_key(Unshifted[n])
            /\ probe.windows = string_to_vk(Unshifted[n])
       /\ (n \notin DOMAIN KeyTable /\ LetterOf(n) = {} /\ n \notin Range(Digits)) =>
            (probe.macos = None /\ probe.unix = None /\ probe.windows = None)

\* "<" was mapped to the comma key on every backend.
C24_Witness ==
  /\ probe.stage = "mapped"
  /\ probe.name = "<"
  /\ probe.macos = Some("Comma") /\ probe.unix = Some("Comma")
  /\ probe.windows = Some("VK_OEM_COMMA")

Plain == backend \in {"unix", "windows"}

\* C27: on the two backends without drag batching a MouseMove requests
\* exactly one move event, carrying the position it stored (the position it
\* found plus its delta), whether or not a MouseDown is open; a MouseClick
\* requests the press and then the release of the mapped button, neither with
\* a position or a click count, and leaves the session as it was.  The
\* release is not requested when the backend reports the press as failed.
C27_PlainMoveAndClick ==
  Plain =>
    /\ command.type = "MouseMove" =>
         /\ Len(events) = 1
         /\ events[1].type = "MouseMove"
         /\ events[1].pos = current_pos
         /\ command.pre.found # None =>
              current_pos = <<command.pre.found[1] + command.a, command.pre.found[2] + command.b>>
    /\ command.type = "MouseClick" =>
         /\ Len(events) = IF backend = "unix" /\ ~events[1].ok THEN 1 ELSE 2
         /\ events[1].type = "ButtonPress"
         /\ Len(events) = 2 => events[2].type = "ButtonRelease"
         /\ \A i \in 1..Len(events) :
              /\ events[i].button = Some(Primary(command.a))
              /\ events[i].count = 0
              /\ events[i].pos = None
         /\ probe.intact

\* On the unix backend a MouseMove after a MouseDown, with no MouseUp between
\* them, injected a move event.
C27_Witness ==
  /\ backend = "unix"
  /\ down_open
  /\ command.type = "MouseMove"
  /\ command.pre.found # None
  /\ Len(events) = 1 /\ events[1].ok

Vertical(evs) == {i \in 1..Len(evs) : evs[i].type = "Wheel" /\ evs[i].pos[1] = 0}
Horizontal(evs) == {i \in 1..Len(evs) : evs[i].type = "Wheel" /\ evs[i].pos[2] = 0}

\* C28: the events of a MouseScroll are wheel events, at most one vertical
\* and one horizontal; the vertical one is requested exactly when delta_y is
\* nonzero, and first; the horizontal one exactly when delta_x is nonzero,
\* unless the backend reported the vertical one as failed; each carries its
\* delta alone (in wheel units on windows); and the session is left as it was.
C28_ScrollPerNonzeroDelta ==
  command.type = "MouseScroll" =>
    LET unit == IF backend = "windows" THEN 120 ELSE 1
        stopped == backend # "windows" /\ events # <<>> /\ ~events[1].ok
    IN /\ Vertical(events) \cup Horizontal(events) = 1..Len(events)
       /\ Vertical(events) = IF command.b # 0 THEN {1} ELSE {}
       /\ ~stopped =>
            Horizontal(events) = IF command.a # 0 THEN {Len(events)} ELSE {}
       /\ \A i \in Vertical(events) : events[i].pos = <<0, command.b * unit>>
       /\ \A i \in Horizontal(events) : events[i].pos = <<command.a * unit, 0>>
       /\ (command.a = 0 /\ command.b = 0) => events = <<>>
       /\ probe.intact

\* A MouseScroll with both deltas nonzero injected two wheel events in a
\* session whose pointer had moved.
C28_Witness ==
  /\ command.type = "MouseScroll"
  /\ command.a = 1 /\ command.b = 1
  /\ Len(events) = 2 /\ events[1].ok /\ events[2].ok
  /\ events[1].pos[1] = 0 /\ events[2].pos[2] = 0
  /\ current_pos # None /\ current_pos # Center

\* C29: until its first command the session has no pointer position, no
\* held button, no last_click record, zero pending deltas, no dragging button
\* and all four modifiers false, however long it has existed.
C29_NewSession ==
  command.type = "new" =>
    /\ current_pos = None
    /\ button_state = None
    /\ last_click = None
    /\ drag_state.pending_x = 0 /\ drag_state.pending_y = 0
    /\ drag_state.button = None
    /\ \A m \in Modifiers : ~modifier_state[m]
    /\ events = <<>>

\* The session of the drag-batching backend has existed for a while without
\* a command.
C29_Witness ==
  /\ command.type = "new"
  /\ backend = "macos"
  /\ drag_state.last_flush >= DRAG_BATCH_INTERVAL_MS

\* C30: while the loop sleeps in a MouseClick, the click has been classified
\* (last_click is of this instant), its position resolved and stored, the
\* mapped button held, and the press, alone so far, was requested with that
\* button held, that position and that count; once the click has returned
\* after its sleep the release is its second event, requested with no button
\* held after the click delay, with the press's position, button and count,
\* and held_button is None; a click that returns with its press alone is one
\* whose press failed.
C30_ClickSequence ==
  command.type = "MouseClick" =>
    LET press == events[1]
    IN /\ press.type = "ButtonPress"
       /\ press.button = Some(Primary(command.a))
       /\ press.held = press.button
       /\ loop.pc = "sleep" =>
            /\ Len(events) = 1 /\ press.ok
            /\ button_state = press.button
            /\ current_pos = press.pos
            /\ last_click = Some([button |-> command.a, time |-> 0, count |-> press.count])
       /\ (loop.pc # "sleep" /\ Len(events) = 1) => ~press.ok
       /\ loop.pc # "sleep" => Len(events) = IF press.ok THEN 2 ELSE 1
       /\ Len(events) = 2 =>
            /\ events[2].type = "ButtonRelease"
            /\ events[2].held = None
            /\ events[2].pos = press.pos
            /\ events[2].count = press.count
            /\ events[2].button = press.button
            /\ events[2].age = Sat(press.age + MOUSE_CLICK_DELAY_MS, FlushCap)
            /\ button_state = None
            /\ current_pos = press.pos
            /\ last_click[1].time = MOUSE_CLICK_DELAY_MS

\* A second click within the timeout has completed: its press and its release
\* both carry count 2 and the centre position.
C30_Witness ==
  /\ command.type = "MouseClick"
  /\ loop.pc = "recv"
  /\ Len(events) = 2
  /\ events[1].count = 2 /\ events[2].count = 2
  /\ events[1].pos = Center /\ events[2].pos = Center
  /\ events[2].ok
  /\ button_state = None

\* A last_click record without its Instant.
Classified(lc) == IF lc = None THEN None ELSE <<lc[1].button, lc[1].count>>

\* lc is the record found, unchanged but for the time that has passed.
SameClick(lc, found) ==
  /\ Classified(lc) = Classified(found)
  /\ lc # None => lc[1].time >= found[1].time

\* C31: on the drag-batching backend, after a MouseDown(b), whatever it
\* found (a button already held included), held_button and dragging_button
\* are the mapped button and the pending deltas are zero; its one event is the press of the mapped button,
\* requested with that button held and dragging and the flush timestamp just
\* taken; and last_click is the record the command found.
C31_MouseDownResetsDrag ==
  (backend = "macos" /\ command.type = "MouseDown") =>
    LET b == Some(Primary(command.a))
    IN /\ button_state = b
       /\ drag_state.button = b
       /\ drag_state.pending_x = 0 /\ drag_state.pending_y = 0
       /\ Len(events) = 1
       /\ events[1].type = "ButtonPress"
       /\ events[1].button = b
       /\ events[1].held = b
       /\ events[1].dragging = b
       /\ events[1].age = 0
       /\ SameClick(last_click, probe.found.last_click)

\* A MouseDown(2) found the left button held and dragging with movement
\* pending, and a click on record.
C31_Witness ==
  /\ backend = "macos"
  /\ command.type = "MouseDown" /\ command.a = 2
  /\ probe.found.button_state = Some("Left")
  /\ probe.found.drag_state.button = Some("Left")
  /\ probe.found.drag_state.pending_x # 0
  /\ probe.found.last_click # None
  /\ button_state = Some("Right")
  /\ drag_state.button = Some("Right")

\* C32: on the drag-batching backend, the events of a MouseUp are, in this
\* order, one drag event when the command found movement pending, requested with the button and the dragging
\* button it found, and then one release of the mapped button, requested with
\* no button held and no dragging button; the release is left out only when
\* the drag event failed.
C32_MouseUpOrder ==
  (backend = "macos" /\ command.type = "MouseUp") =>
    LET found == probe.found
        pending == has_pending(found.drag_state)
        flushes == {i \in 1..Len(events) : events[i].type = "Drag"}
        releases == {i \in 1..Len(events) : events[i].type = "ButtonRelease"}
    IN /\ flushes \cup releases = 1..Len(events)
       /\ flushes = IF pending THEN {1} ELSE {}
       /\ \A i \in flushes, j \in releases : i < j
       /\ Cardinality(releases) <= 1
       /\ releases = {} <=> (pending /\ ~events[1].ok)
       /\ \A i \in flushes :
            /\ events[i].held = found.button_state
            /\ events[i].dragging = found.drag_state.button
       /\ \A j \in releases :
            /\ events[j].button = Some(Primary(command.a))
            /\ events[j].held = None
            /\ events[j].dragging = None
            /\ button_state = None
            /\ drag_state.button = None

\* A MouseUp flushed the movement pending under a held button and then
\* released.
C32_Witness ==
  /\ backend = "macos"
  /\ command.type = "MouseUp"
  /\ Len(events) = 2
  /\ events[1].type = "Drag" /\ events[1].ok /\ events[1].held # None
  /\ events[2].type = "ButtonRelease" /\ events[2].ok
  /\ probe.found.drag_state.pending_x # 0

\* C33: on the drag-batching backend, a MouseMove that found no button held
\* requests exactly one plain move event and leaves the pending deltas and the dragging button as they
\* were, whatever the dragging button is; one that found a button held
\* requests no plain move event and at most one drag event, of the held
\* button, and the pending deltas are those found plus the command's delta,
\* or zero when its drag event was injected.
C33_MoveRoutedByHeldButton ==
  (backend = "macos" /\ command.type = "MouseMove") =>
    LET found == probe.found
        was == found.drag_state
        plain == {i \in 1..Len(events) : events[i].type = "MouseMove"}
        drags == {i \in 1..Len(events) : events[i].type = "Drag"}
    IN IF found.button_state = None
         THEN /\ Len(events) = 1 /\ plain = {1}
              /\ drag_state.pending_x = was.pending_x
              /\ drag_state.pending_y = was.pending_y
              /\ drag_state.button = was.button
              /\ drag_state.last_flush >= was.last_flush
         ELSE /\ plain = {}
              /\ drags = 1..Len(events)
              /\ Len(events) <= 1
              /\ \A i \in drags : events[i].button = found.button_state
              /\ IF Drags(events) # {}
                   THEN drag_state.pending_x = 0 /\ drag_state.pending_y = 0
                   ELSE /\ drag_state.pending_x = was.pending_x + command.a
                        /\ drag_state.pending_y = was.pending_y + command.b
              /\ drag_state.button = was.button

\* A MouseMove found no button held but a dragging button still set, and
\* requested a plain move.
C33_Witness ==
  /\ backend = "macos"
  /\ command.type = "MouseMove"
  /\ probe.found.button_state = None
  /\ probe.found.drag_state.button # None
  /\ Len(events) = 1 /\ events[1].type = "MouseMove" /\ events[1].ok

\* The place of a modifier's key in the order ctrl, alt, shift, meta.
Place(key) ==
  CASE key = "ControlLeft" -> 1
    [] key = "Alt" -> 2
    [] key = "ShiftLeft" -> 3
    [] key = "MetaLeft" -> 4

\* C34: among the modifier events one KeyPress command requests, no key-up
\* precedes a key-down, and the key-downs, like the key-ups, are in the order
\* ctrl, alt, shift, meta.
C34_PressesBeforeReleases ==
  command.type = "KeyPress" =>
    \A i \in ModEvents(events), j \in ModEvents(events) :
      i < j =>
        /\ ~(events[i].type = "KeyRelease" /\ events[j].type = "KeyPress")
        /\ events[i].type = events[j].type => Place(events[i].key) < Place(events[j].key)

\* A KeyPress that found ctrl down and asked for alt and shift pressed alt,
\* then shift, and then released ctrl.
C34_Witness ==
  /\ command.type = "KeyPress"
  /\ command.pre.state["ctrl"]
  /\ Len(events) >= 3
  /\ events[1].type = "KeyPress" /\ events[1].key = "Alt" /\ events[1].ok
  /\ events[2].type = "KeyPress" /\ events[2].key = "ShiftLeft" /\ events[2].ok
  /\ events[3].type = "KeyRelease" /\ events[3].key = "ControlLeft" /\ events[3].ok

\* C35: the position a MouseMove adds its delta to is the position it found
\* when there was one (the cursor is then not queried); else, on the two
\* backends with a cursor query, the query's answer when it succeeded and the
\* centre when it failed; on the drag-batching backend no query is made and
\* the first position resolved is the centre.
C35_BasePreferenceOrder ==
  command.type = "MouseMove" =>
    LET base == <<current_pos[1] - command.a, current_pos[2] - command.b>>
    IN IF backend = "macos"
         THEN /\ ~probe.queried
              /\ probe.base = Center
              /\ base = <<probe.base[1] + probe.sum[1] - command.a,
                          probe.base[2] + probe.sum[2] - command.b>>
         ELSE LET pre == command.pre
              IN /\ pre.queried <=> pre.found = None
                 /\ base = IF pre.found # None THEN pre.found
                           ELSE IF pre.cursor # None THEN pre.cursor
                           ELSE Center

\* On the windows backend the first MouseMove found no position, the cursor
\* query answered, and the move went to the cursor's position plus the delta.
C35_Witness ==
  /\ backend = "windows"
  /\ command.type = "MouseMove"
  /\ command.pre.found = None
  /\ command.pre.cursor # None /\ command.pre.cursor # Center
  /\ current_pos = <<command.pre.cursor[1] + command.a, command.pre.cursor[2] + command.b>>

\* C36: on the drag-batching backend, as long as no injection has failed,
\* after every command held_button is None or equal to dragging_button; and after a MouseClick that came
\* after a MouseDown with no MouseUp between them, held_button is None and
\* dragging_button is the button the MouseClick found there.
C36_HeldIsNoneOrDragging ==
  (backend = "macos" /\ ~inj_failed) =>
    /\ button_state = None \/ button_state = drag_state.button
    /\ (command.type = "MouseClick" /\ down_open) =>
         /\ button_state = None
         /\ drag_state.button # None
         /\ drag_state.button = probe.found.drag_state.button

\* With every injection so far successful, a MouseClick found a button held
\* by a MouseDown and left none held, the dragging button still set.
C36_Witness ==
  /\ backend = "macos"
  /\ ~inj_failed
  /\ command.type = "MouseClick"
  /\ down_open
  /\ probe.found.button_state = Some("Left")
  /\ button_state = None
  /\ drag_state.button = Some("Left")
  /\ Len(events) = 2

\* C37: a drag event, whether requested by a MouseMove or by the flush of a
\* MouseUp, carries the pointer position the session holds when it is
\* requested: for a MouseMove the position found (or the centre) plus the
\* command's delta, for a MouseUp the position found (or the centre), whatever
\* the pending deltas were.
C37_DragCarriesPosition ==
  \A i \in 1..Len(events) :
    events[i].type = "Drag" =>
      LET found == probe.found
          base == IF found.current_pos # None THEN found.current_pos ELSE Center
      IN /\ events[i].pos = current_pos
         /\ command.type \in {"MouseMove", "MouseUp"}
         /\ command.type = "MouseMove" =>
              events[i].pos = <<base[1] + command.a, base[2] + command.b>>
         /\ command.type = "MouseUp" => events[i].pos = base

\* A MouseMove that found movement pending injected a drag event, which
\* carries the pointer position, away from the centre.
C37_Witness ==
  /\ backend = "macos"
  /\ command.type = "MouseMove"
  /\ Len(events) = 1 /\ events[1].type = "Drag" /\ events[1].ok
  /\ probe.found.drag_state.pending_x # 0
  /\ events[1].pos = current_pos
  /\ current_pos # Center

\* C38: a MouseClick whose button id differs from the id of the click before
\* it is classified 1, also when both ids map to the same physical button
\* and the clicks are within the threshold; its press and release are events
\* of the mapped button and carry that count, and last_click keeps the id as
\* it came.
C38_ClassifiedByRawId ==
  clicks.log # <<>> =>
    /\ \A i \in 1..Len(events) :
         /\ events[i].button = Some(Primary(Cur.button))
         /\ events[i].count = Cur.count
    /\ last_click[1].button = Cur.button
    /\ (Len(clicks.log) >= 2 /\ Prev.button # Cur.button) => Cur.count = 1

\* MouseClick(1) and, right after it, MouseClick(4): both classified 1, the
\* second one pressing and releasing the primary button.
C38_Witness ==
  /\ Len(clicks.log) >= 2
  /\ Prev.button = 1 /\ Prev.count = 1
  /\ Cur.button = 4 /\ Cur.count = 1
  /\ clicks.gap <= MOUSE_CLICK_DELAY_MS
  /\ Len(events) = 2
  /\ events[1].button = Some("Left") /\ events[2].button = Some("Left")
  /\ events[1].ok /\ events[2].ok

\* Command c is one that may lift modifier m: a KeyPress whose modifier set
\* has m false, or a ModifierRelease that names m.
Lifts(c, m) ==
  \/ c.type = "KeyPress" /\ ~c.b[m]
  \/ c.type = "ModifierRelease" /\ modifier_arm(c.a) = Some(m)

\* C39: a modifier that is down stays down, and no key-up of it is
\* requested, through every command that is neither a KeyPress whose
\* modifier set has it false nor a ModifierRelease of it; a KeyRelease in
\* particular, whatever modifier set it carries, leaves it down.
C39_ModifierOutlivesKeyRelease ==
  [][\A m \in Modifiers :
       LET ups == {i \in 1..Len(events') :
                     events'[i].type = "KeyRelease" /\ events'[i].key = ModKey[m]}
       IN ((modifier_state[m] /\ ~modifier_state'[m]) \/ ups # {}) => Lifts(command', m)]_vars

\* After a key-down of ctrl was injected, a KeyRelease of the key, carrying a
\* modifier set without ctrl, released the key alone and left ctrl down.
C39_Witness ==
  /\ command.type = "KeyRelease"
  /\ command.a = "a"
  /\ ~command.b["ctrl"]
  /\ command.pre.state["ctrl"]
  /\ mod_sent["ctrl"] = "down"
  /\ modifier_state["ctrl"]
  /\ Len(events) = 1 /\ events[1].type = "KeyRelease" /\ events[1].key = "KeyA"

\* C40: what a handler wrote before an injection that failed stays written.
\* After a MouseMove whose event failed, on either backend, pointer_position
\* is the new position, the one the failed event was requested for, and on
\* the drag-batching backend a held move has added its delta to the pending
\* deltas; after a MouseDown whose press failed, held_button and
\* dragging_button are the mapped button and the pending deltas zero; after a
\* MouseClick whose press failed, last_click is the new classification, the
\* position resolved is stored and held_button is the mapped button.
C40_NoRollbackOnFailure ==
  LET found == probe.found
      failed == events # <<>> /\ ~events[Len(events)].ok
  IN /\ (command.type = "MouseMove" /\ failed) =>
          /\ Len(events) = 1
          /\ current_pos # None
          /\ current_pos # found.current_pos
          /\ events[1].pos = current_pos
          /\ found.current_pos # None =>
               current_pos = <<found.current_pos[1] + command.a,
                               found.current_pos[2] + command.b>>
          /\ events[1].type = "Drag" =>
               /\ drag_state.pending_x = found.drag_state.pending_x + command.a
               /\ drag_state.pending_y = found.drag_state.pending_y + command.b
     /\ (backend = "macos" /\ command.type = "MouseDown" /\ failed) =>
          /\ button_state = Some(Primary(command.a))
          /\ drag_state.button = button_state
          /\ drag_state.pending_x = 0 /\ drag_state.pending_y = 0
     /\ (backend = "macos" /\ command.type = "MouseClick" /\ ~events[1].ok) =>
          /\ Len(events) = 1
          /\ button_state = Some(Primary(command.a))
          /\ last_click # None
          /\ last_click[1].button = command.a
          /\ last_click[1].count = events[1].count
          /\ current_pos = events[1].pos

\* The first MouseClick of a session failed at its press: the click is on
\* record, the centre is stored and the button is held.
C40_Witness ==
  /\ backend = "macos"
  /\ command.type = "MouseClick"
  /\ Len(events) = 1 /\ ~events[1].ok
  /\ probe.found.last_click = None
  /\ probe.found.current_pos = None
  /\ probe.found.button_state = None
  /\ last_click # None
  /\ current_pos = Center
  /\ button_state = Some("Right")

====
